---- MODULE Spec2Model ----
(***************************************************************************)
(* Careerspark: the resume analysis pipeline.                              *)
(*                                                                         *)
(*   src/pages/Upload.tsx        handleAnalyze, the orchestrator           *)
(*   src/services/apiService.ts  analyzeResume, findMatchingJobs           *)
(*   src/unnamed/part_001        supabaseService: uploadResumeFile,        *)
(*                               createResumeRecord,                       *)
(*                               updateResumeWithAnalysis, getResumeData   *)
(*                                                                         *)
(* A run is one invocation of handleAnalyze.  Every await of the code is a *)
(* position of the run (pc); the action that resolves the awaited request  *)
(* executes the code up to the next await, or to the end of the run.       *)
(* The supabase client resolves every query to {data, error} and the code  *)
(* reads the error from that value, so a query is modelled as resolving    *)
(* with or without an error.                                               *)
(***************************************************************************)
EXTENDS Integers, Sequences, FiniteSets, TLC

(***************************************************************************)
(* JavaScript values.  A scalar is a tagged record, so that values of      *)
(* different types can be compared; a JSON value that should be a list     *)
(* carries its kind and, if it is an array, its items.                     *)
(***************************************************************************)
Num(n) == [t |-> "number", n |-> n, s |-> ""]

Str(s) == [t |-> "string", n |-> 0, s |-> s]

Undefined == [t |-> "undefined", n |-> 0, s |-> ""]

\* typeof v === 'number'
typeofNumber(v) == v.t = "number"

\* The truthiness of a scalar, as v || d reads it.
truthy(v) ==
    CASE v.t = "number" -> v.n # 0
      [] v.t = "string" -> v.s # ""
      [] OTHER -> FALSE

Arr(items) == [kind |-> "array", items |-> items]

JsNull == [kind |-> "null", items |-> <<>>]

JsUndefined == [kind |-> "undefined", items |-> <<>>]

\* A JSON object where a list was expected, such as {"jobs": [...]}.
JsObject == [kind |-> "object", items |-> <<>>]

\* v || [] for a value that should be a list.
orEmpty(v) == IF v.kind \in {"null", "undefined"} THEN Arr(<<>>) ELSE v

\* Whether v.map(...) can be called: only an array has map.
hasMap(v) == v.kind = "array"

(***************************************************************************)
(* The inputs of the model: what the services can answer.                  *)
(***************************************************************************)
Runs == {"r1"}

Tables == <<"skills", "feedback", "matched_jobs">>

TableSet == {Tables[i] : i \in 1..3}

\* A job object with a numeric match_percentage, one without, and a null
\* element of the array.
Job1 == [kind |-> "object", title |-> "Backend Engineer", match_percentage |-> Num(90)]

Job2 == [kind |-> "object", title |-> "Data Engineer", match_percentage |-> Undefined]

JobNull == [kind |-> "null", title |-> "", match_percentage |-> Undefined]

\* A job object whose match_percentage is above 100.
Job3 == [kind |-> "object", title |-> "Platform Engineer", match_percentage |-> Num(120)]

Skill1 == [name |-> "Go", category |-> "technical", confidence |-> Num(90)]

Skill2 == [name |-> "SQL", category |-> "technical", confidence |-> Undefined]

\* A skill whose confidence was given as a percentage.
Skill3 == [name |-> "Rust", category |-> "technical", confidence |-> Num(8500)]

\* The objects analyzeResume's JSON.parse can deliver.
AnalysisValues ==
    { [score |-> Num(82), experience_level |-> Str("mid-level"),
       total_experience |-> Num(4), feedback |-> Arr(<<"Add metrics">>),
       skills |-> Arr(<<Skill1>>), job_titles |-> Arr(<<"Backend Engineer">>)],
      [score |-> Str("abc"), experience_level |-> Undefined,
       total_experience |-> Undefined, feedback |-> JsUndefined,
       skills |-> Arr(<<Skill2>>), job_titles |-> Arr(<<"Data Engineer">>)],
      [score |-> Num(82), experience_level |-> Str("senior"),
       total_experience |-> Num(4), feedback |-> Arr(<<"Add metrics">>),
       skills |-> Arr(<<>>), job_titles |-> Arr(<<>>)],
      [score |-> Num(82), experience_level |-> Str("junior"),
       total_experience |-> Num(1), feedback |-> Arr(<<"Add metrics">>),
       skills |-> Arr(<<Skill1, Skill2>>), job_titles |-> JsUndefined],
      [score |-> Num(150), experience_level |-> Str("Senior"),
       total_experience |-> Num(-1), feedback |-> Arr(<<"Add metrics">>),
       skills |-> Arr(<<Skill3>>), job_titles |-> JsNull],
      [score |-> Num(82), experience_level |-> Num(3),
       total_experience |-> Num(4), feedback |-> Arr(<<>>),
       skills |-> Arr(<<Skill1>>), job_titles |-> Arr(<<"Backend Engineer">>)] }

NoAnalysis ==
    [score |-> Undefined, experience_level |-> Undefined,
     total_experience |-> Undefined, feedback |-> JsUndefined,
     skills |-> JsUndefined, job_titles |-> JsUndefined]

(***************************************************************************)
(* Response texts of the job search model, as sequences of tokens.         *)
(***************************************************************************)
WhiteSpace == {"NL", "SP"}

FenceTokens == {"FENCEJSON", "FENCE"}

\* String.prototype.trim
RECURSIVE trimLeft(_)
trimLeft(s) ==
    IF s # <<>> /\ Head(s) \in WhiteSpace THEN trimLeft(Tail(s)) ELSE s

RECURSIVE trimRight(_)
trimRight(s) ==
    IF s # <<>> /\ s[Len(s)] \in WhiteSpace
    THEN trimRight(SubSeq(s, 1, Len(s) - 1)) ELSE s

trim(s) == trimRight(trimLeft(s))

\* Tokens: FENCEJSON is three backquotes followed by json, FENCE is three
\* backquotes, NL a line break, SP a blank.
\* jsonText.match of the fence pattern: the leftmost FENCEJSON followed by a
\* line break, then the shortest content closed by a line break and three
\* backquotes; group 1 is that content.  The closing backquotes also match
\* the first characters of a FENCEJSON token.
matchStarts(s) ==
    { i \in 1..Len(s) : s[i] = "FENCEJSON" /\ i + 1 <= Len(s) /\ s[i + 1] = "NL" }

matchEnds(s, i) ==
    { j \in (i + 2)..Len(s) :
        s[j] = "NL" /\ j + 1 <= Len(s) /\ s[j + 1] \in FenceTokens }

Min(S) == CHOOSE x \in S : \A y \in S : x <= y

jsonMatch(s) ==
    LET starts == { i \in matchStarts(s) : matchEnds(s, i) # {} }
    IN  IF starts = {} THEN [found |-> FALSE, group |-> <<>>]
        ELSE LET i == Min(starts)
                 j == Min(matchEnds(s, i))
             IN  [found |-> TRUE, group |-> SubSeq(s, i + 2, j - 1)]

\* Lines 105-109 and 121-125: trim, then keep group 1 when the pattern
\* matched and the group is not the empty string.
stripFence(text) ==
    LET m == jsonMatch(trim(text))
    IN  IF m.found /\ m.group # <<>> THEN m.group ELSE trim(text)

\* JSON.parse on tokens: white space is skipped; a text is one scalar token
\* or "[" items separated by "," "]".  ok is FALSE where JSON.parse throws.
noSpace(s) == SelectSeq(s, LAMBDA c : c \notin WhiteSpace)

ItemOf(c) ==
    CASE c = "J1" -> Job1
      [] c = "J2" -> Job2
      [] c = "J3" -> Job3
      [] OTHER -> JobNull

ItemTokens == {"J1", "J2", "J3", "null"}

RECURSIVE parseItems(_)
parseItems(s) ==
    IF s = <<>> THEN [ok |-> FALSE, items |-> <<>>]
    ELSE IF Head(s) \notin ItemTokens THEN [ok |-> FALSE, items |-> <<>>]
    ELSE IF Len(s) = 1 THEN [ok |-> TRUE, items |-> <<ItemOf(s[1])>>]
    ELSE IF s[2] # "," THEN [ok |-> FALSE, items |-> <<>>]
    ELSE LET rest == parseItems(SubSeq(s, 3, Len(s)))
         IN  [ok |-> rest.ok, items |-> <<ItemOf(s[1])>> \o rest.items]

JSONparse(text) ==
    LET s == noSpace(text)
    IN  IF s = <<"null">> THEN [ok |-> TRUE, value |-> JsNull]
        ELSE IF s = <<"{}">> THEN [ok |-> TRUE, value |-> JsObject]
        ELSE IF Len(s) >= 2 /\ s[1] = "[" /\ s[Len(s)] = "]"
             THEN IF Len(s) = 2 THEN [ok |-> TRUE, value |-> Arr(<<>>)]
                  ELSE LET p == parseItems(SubSeq(s, 2, Len(s) - 1))
                       IN  [ok |-> p.ok, value |-> Arr(p.items)]
        ELSE [ok |-> FALSE, value |-> JsNull]

\* The texts the model answers with.
Texts ==
    { <<"FENCEJSON", "NL", "[", "J1", "]", "NL", "FENCE">>,
      <<"FENCE", "NL", "[", "J1", "]", "NL", "FENCE">>,
      <<"[", "J3", "]">>,
      <<"[", "J1", ",", "J2", "]">>,
      <<"SP", "[", "]", "NL">>,
      <<"[", "null", "]">>,
      <<"{}">>,
      <<"null">>,
      <<"Here", "[", "J1", "]">>,
      <<"[", "J1", ",", "]">> }


(***************************************************************************)
(* The state.                                                              *)
(***************************************************************************)
VARIABLES
    pc,           \* each run's position: the await it is suspended at
    file,         \* Upload's selected file
    user,         \* the signed-in user of the app context
    jobSource,    \* which findMatchingJobs the run is built with
    ui,           \* Upload's isLoading, progress, status and error
    progressLog,  \* the values handed to setProgress, in order
    calls,        \* the service functions a run has called, in order
    rets,         \* what each service function returned, in order
    reqs,         \* the requests a run has issued, in order
    loc,          \* handleAnalyze's file_url, newResume, analysisData, matched_jobs,
                  \* how analyzeResume's request ended (extraction), and
                  \* findMatchingJobs' responses and jsonText
    upd,          \* updateResumeWithAnalysis: how the header update resolved,
                  \* the rows to insert, each insert's state, the order the
                  \* inserts resolved in, and the result
    resumes,      \* the resumes table; a row's id is its index
    rows,         \* the skills, feedback and matched_jobs tables
    app,          \* AppProvider's session, user, profile, resumes and loading
    handlers,     \* the calls of getInitialSession and of the auth listener,
                  \* each with the await it is suspended at
    handled,      \* the sessions the auth listener was called with, in order
    mounted       \* whether AppProvider is mounted (the listener subscribed)

uploadVars ==
    <<pc, file, user, jobSource, ui, progressLog, calls, rets, reqs, loc, upd,
      resumes, rows>>

appVars == <<app, handlers, handled, mounted>>

vars == <<uploadVars, appVars>>

(***************************************************************************)
(* AppProvider (src/unnamed/part_002): the state of lines 27-31 after the  *)
(* effect of lines 39-79 has run once: getInitialSession is suspended at   *)
(* getSession and the listener is subscribed.                              *)
(***************************************************************************)
AuthUsers == {"u1", "u2"}

\* A null session, or a session without a user.
NullSession == [user |-> ""]

Sessions == { [user |-> u] : u \in AuthUsers } \cup {NullSession}

NullProfile == [id |-> ""]

ProfileOf(u) == [id |-> u]

ResumesOf(u) == << [user_id |-> u] >>

\* The auth events of one behaviour.
MaxEvents == 3

\* getInitialSession is handler 1; each event with a user adds one.
HandlerIds == 1..(MaxEvents + 1)

AppInit ==
    /\ app = [session |-> NullSession, user |-> "", profile |-> NullProfile,
              resumes |-> <<>>, loading |-> TRUE]
    /\ handlers = << [kind |-> "getInitialSession", at |-> "getSession", id |-> ""] >>
    /\ handled = <<>>
    /\ mounted = TRUE

NoFile == [name |-> "", size |-> 0]

ResumeFile == [name |-> "cv.pdf", size |-> 2097152]

\* Line 22: 5 * 1024 * 1024
MaxFileSize == 5242880

LimitFile == [name |-> "limit.pdf", size |-> MaxFileSize]

BigFile == [name |-> "big.pdf", size |-> MaxFileSize + 1]

\* The files a user drops.
DroppedFiles == {ResumeFile, LimitFile, BigFile}

SizeError == "File size must be less than 5MB."

ReadyText == "Ready to upload..."

NoResult == [data |-> <<>>, error |-> "none"]

NoInserts == [t \in TableSet |-> "none"]

NoRows == [t \in TableSet |-> <<>>]

\* The three findMatchingJobs of the repository: apiService lines 92-133
\* (grounded search with a repair request), apiService lines 227-270 (the
\* JSearch HTTP API) and lib/supabase lines 106-136 (grounded search, no
\* repair).
JobSources == {"grounded", "direct", "lib"}

NoResponse == [kind |-> "none", text |-> <<>>, data |-> JsUndefined]

Init ==
    /\ pc = [r \in Runs |-> "idle"]
    /\ file = [r \in Runs |-> NoFile]
    /\ user \in [Runs -> {"", "u1"}]
    /\ jobSource \in [Runs -> JobSources]
    /\ ui = [r \in Runs |->
               [isLoading |-> FALSE, progress |-> 0, status |-> ReadyText, error |-> ""]]
    /\ progressLog = [r \in Runs |-> <<>>]
    /\ calls = [r \in Runs |-> <<>>]
    /\ rets = [r \in Runs |-> <<>>]
    /\ reqs = [r \in Runs |-> <<>>]
    /\ loc = [r \in Runs |->
               [file_url |-> "", newResume |-> 0, extraction |-> "none",
                analysisData |-> NoAnalysis, first |-> NoResponse, repair |-> NoResponse,
                jsonText |-> <<>>, matched_jobs |-> JsUndefined]]
    /\ upd = [r \in Runs |->
               [header |-> "none", toInsert |-> NoRows, ins |-> NoInserts,
                order |-> <<>>, result |-> NoResult]]
    /\ resumes = <<>>
    /\ rows = NoRows
    /\ AppInit

\* What a service function returned: whether with an error, and whether with
\* data (a file_url, a record, an analysis, a list).
Ret(fn, error, data) == [fn |-> fn, error |-> error, data |-> data]

(***************************************************************************)
(* Upload.onDrop, lines 19-29.                                             *)
(***************************************************************************)
\* The test of line 22 with the ceiling itself refused.
tooLargeInclusive(f) == f.size >= MaxFileSize

\* Line 22: selectedFile.size > 5 * 1024 * 1024
tooLarge(f) == f.size > MaxFileSize

\* A file is dropped on the dropzone, which is rendered for a signed-in user
\* while no file is selected (lines 81 and 100).
onDrop(r, f) ==
    /\ user[r] # ""
    /\ file[r] = NoFile
    /\ IF tooLarge(f)
       THEN /\ ui' = [ui EXCEPT ![r].error = SizeError]
            /\ UNCHANGED file
       ELSE /\ file' = [file EXCEPT ![r] = f]
            /\ ui' = [ui EXCEPT ![r].error = ""]
    /\ UNCHANGED <<appVars, pc, user, jobSource, progressLog, calls, rets, reqs, loc,
                   upd, resumes, rows>>

(***************************************************************************)
(* Upload.handleAnalyze, lines 37-79.                                      *)
(***************************************************************************)
\* A milestone that first puts the bar back to 0.
MilestoneFromZero(r, p, st) ==
    /\ ui' = [ui EXCEPT ![r].progress = p, ![r].status = st]
    /\ progressLog' = [progressLog EXCEPT ![r] = @ \o <<0, p>>]

\* setProgress(p); setStatus(st), in either order.
Milestone(r, p, st) ==
    /\ ui' = [ui EXCEPT ![r].progress = p, ![r].status = st]
    /\ progressLog' = [progressLog EXCEPT ![r] = @ \o <<p>>]

\* A catch that only sets the error.
CatchErrorOnly(r, msg, before) ==
    /\ ui' = [ui EXCEPT ![r].error = msg]
    /\ progressLog' = [progressLog EXCEPT ![r] = @ \o before]
    /\ pc' = [pc EXCEPT ![r] = "failed"]

\* The catch of lines 73-78, after the setProgress calls (before) of the step.
Catch(r, msg, before) ==
    /\ ui' = [ui EXCEPT ![r] =
                [isLoading |-> FALSE, progress |-> 0, status |-> ReadyText,
                 error |-> msg]]
    /\ progressLog' = [progressLog EXCEPT ![r] = @ \o before \o <<0>>]
    /\ pc' = [pc EXCEPT ![r] = "failed"]

\* Line 46 without its await: createResumeRecord is called while the upload
\* is on the way.
handleAnalyzeNoAwait(r) ==
    /\ pc[r] = "idle"
    /\ file[r] # NoFile
    /\ user[r] # ""
    /\ ui' = [ui EXCEPT ![r] =
                [isLoading |-> TRUE, progress |-> 25,
                 status |-> "Creating analysis record...", error |-> ""]]
    /\ progressLog' = [progressLog EXCEPT ![r] = @ \o <<10, 25>>]
    /\ calls' = [calls EXCEPT ![r] = @ \o <<"uploadResumeFile", "createResumeRecord">>]
    /\ reqs' = [reqs EXCEPT ![r] = @ \o <<"storage.upload", "resumes.insert">>]
    /\ pc' = [pc EXCEPT ![r] = "upload"]
    /\ UNCHANGED <<appVars, file, user, jobSource, rets, loc, upd, resumes, rows>>

\* Lines 37-46: the guard, setIsLoading, setError, the first milestone, and
\* uploadResumeFile up to its await of storage.upload.
handleAnalyze(r) ==
    /\ pc[r] = "idle"
    /\ file[r] # NoFile
    /\ user[r] # ""
    /\ ui' = [ui EXCEPT ![r] =
                [isLoading |-> TRUE, progress |-> 10,
                 status |-> "Uploading your resume...", error |-> ""]]
    /\ progressLog' = [progressLog EXCEPT ![r] = @ \o <<10>>]
    /\ calls' = [calls EXCEPT ![r] = @ \o <<"uploadResumeFile">>]
    /\ reqs' = [reqs EXCEPT ![r] = @ \o <<"storage.upload">>]
    /\ pc' = [pc EXCEPT ![r] = "upload"]
    /\ UNCHANGED <<appVars, file, user, jobSource, rets, loc, upd, resumes, rows>>

\* uploadResumeFile, part_001 lines 137-154: {file_url: null, error} on an
\* error of the upload, else the public url the storage client gives.
uploadResumeFile(uploadError, publicUrl) ==
    IF uploadError THEN [file_url |-> "", error |-> TRUE]
    ELSE [file_url |-> publicUrl, error |-> FALSE]

\* Line 47 without its test of file_url.
uploadFailedErrorOnly(res) == res.error

\* Line 47: uploadError || !file_url
uploadFailed(res) == res.error \/ res.file_url = ""

\* storage.upload resolves; lines 46-51.
UploadResolve(r, uploadError, publicUrl) ==
    /\ pc[r] = "upload"
    /\ LET res == uploadResumeFile(uploadError, publicUrl)
       IN  /\ rets' = [rets EXCEPT ![r] =
                         Append(@, Ret("uploadResumeFile", res.error, res.file_url # ""))]
           /\ IF uploadFailed(res)
              THEN /\ Catch(r, "Failed to upload file.", <<>>)
                   /\ UNCHANGED <<calls, reqs, loc>>
              ELSE /\ Milestone(r, 25, "Creating analysis record...")
                   /\ loc' = [loc EXCEPT ![r].file_url = res.file_url]
                   /\ calls' = [calls EXCEPT ![r] = @ \o <<"createResumeRecord">>]
                   /\ reqs' = [reqs EXCEPT ![r] = @ \o <<"resumes.insert">>]
                   /\ pc' = [pc EXCEPT ![r] = "create"]
    /\ UNCHANGED <<appVars, file, user, jobSource, upd, resumes, rows>>

\* A record created as already completed.
newResumeRowCompleted(filename, file_url, userId) ==
    [filename |-> filename, file_url |-> file_url, status |-> "completed",
     user_id |-> userId, score |-> Undefined, experience_level |-> Undefined,
     total_experience |-> Undefined, extracted_text |-> ""]

\* The row createResumeRecord inserts, part_001 lines 66-71.
newResumeRow(filename, file_url, userId) ==
    [filename |-> filename, file_url |-> file_url, status |-> "processing",
     user_id |-> userId, score |-> Undefined, experience_level |-> Undefined,
     total_experience |-> Undefined, extracted_text |-> ""]

\* Line 52: createError || !newResume
createFailed(createError, hasData) == createError \/ ~hasData

\* resumes.insert(...).select().single() resolves; lines 51-56, and
\* analyzeResume up to its await of blobToBase64.  The query resolves with
\* the inserted row, or with an error and no row.
CreateResolve(r, createError) ==
    /\ pc[r] = "create"
    /\ rets' = [rets EXCEPT ![r] =
                  Append(@, Ret("createResumeRecord", createError, ~createError))]
    /\ IF createFailed(createError, ~createError)
       THEN /\ Catch(r, "Failed to create resume record.", <<>>)
            /\ UNCHANGED <<calls, reqs, loc, resumes>>
       ELSE /\ resumes' = Append(resumes,
                            newResumeRow(file[r].name, loc[r].file_url, user[r]))
            /\ loc' = [loc EXCEPT ![r].newResume = Len(resumes) + 1]
            /\ Milestone(r, 40, "AI is analyzing your resume...")
            /\ calls' = [calls EXCEPT ![r] = @ \o <<"analyzeResume">>]
            /\ UNCHANGED reqs
            /\ pc' = [pc EXCEPT ![r] = "encode"]
    /\ UNCHANGED <<appVars, file, user, jobSource, upd, rows>>

\* blobToBase64 resolves (apiService lines 60-79): a rejection is caught at
\* line 86 and analyzeResume returns {data: null, error}.
EncodeResolve(r, rejected) ==
    /\ pc[r] = "encode"
    /\ IF rejected
       THEN /\ rets' = [rets EXCEPT ![r] = Append(@, Ret("analyzeResume", TRUE, FALSE))]
            /\ loc' = [loc EXCEPT ![r].extraction = "encodeRejected"]
            /\ Catch(r, "AI analysis failed.", <<>>)
            /\ UNCHANGED reqs
       ELSE /\ reqs' = [reqs EXCEPT ![r] = @ \o <<"generateContent.analyze">>]
            /\ pc' = [pc EXCEPT ![r] = "analyze"]
            /\ UNCHANGED <<ui, progressLog, rets, loc>>
    /\ UNCHANGED <<appVars, file, user, jobSource, calls, upd, resumes, rows>>


(***************************************************************************)
(* findMatchingJobs: apiService lines 92-133 (grounded search and repair), *)
(* apiService lines 227-270 (JSearch), lib/supabase lines 106-136.         *)
(***************************************************************************)
\* The guard without its test of the length.
noTitlesMissingOnly(jobTitles) == jobTitles.kind \in {"null", "undefined"}

\* !jobTitles || jobTitles.length === 0
noTitles(jobTitles) ==
    \/ jobTitles.kind \in {"null", "undefined"}
    \/ jobTitles.kind = "array" /\ Len(jobTitles.items) = 0

\* What generateContent resolves with: a rejection, a response without
\* text, or a text.
ModelResponses ==
    { [kind |-> k, text |-> <<>>, data |-> JsUndefined] : k \in {"rejected", "notext"} }
        \cup { [kind |-> "text", text |-> t, data |-> JsUndefined] : t \in Texts }

\* A value findMatchingJobs returns; threw is whether it throws instead.
Returned(value) == [done |-> TRUE, threw |-> FALSE, value |-> value, jsonText |-> <<>>]

\* apiService lines 97-116 once the first request has resolved: done with
\* the value to return, or not done with the text the repair request is
\* given.  A rejection, and the TypeError of trim on a missing text, are
\* caught at line 129.
findMatchingJobsFirst(resp) ==
    IF resp.kind # "text" THEN Returned(Arr(<<>>))
    ELSE LET jsonText == stripFence(resp.text)
             jobs == JSONparse(jsonText)
         IN  IF jobs.ok
             THEN [Returned(orEmpty(jobs.value)) EXCEPT !.jsonText = jsonText]
             ELSE [done |-> FALSE, threw |-> FALSE, value |-> Arr(<<>>),
                   jsonText |-> jsonText]

\* The repair pass without the enclosing try: the SyntaxError of line 126
\* leaves findMatchingJobs.
findMatchingJobsRepairUncaught(resp) ==
    IF resp.kind # "text" THEN Returned(Arr(<<>>))
    ELSE LET fixed == JSONparse(stripFence(resp.text))
         IN  IF fixed.ok THEN Returned(fixed.value)
             ELSE [Returned(Arr(<<>>)) EXCEPT !.threw = TRUE]

\* The repair pass with its result dropped.
findMatchingJobsRepairDiscarded(resp) == Returned(Arr(<<>>))

\* apiService lines 117-131 once the repair request has resolved: the parsed
\* value as it is, or [] from the catch of line 129, which encloses the
\* catch block of line 114.
findMatchingJobsRepair(resp) ==
    IF resp.kind # "text" THEN Returned(Arr(<<>>))
    ELSE LET fixed == JSONparse(stripFence(resp.text))
         IN  IF fixed.ok THEN Returned(fixed.value) ELSE Returned(Arr(<<>>))

\* The characters of a token.
TokenLength(c) ==
    CASE c = "FENCEJSON" -> 7
      [] c = "FENCE" -> 3
      [] c \in {"NL", "SP", "[", "]", ","} -> 1
      [] c = "{}" -> 2
      [] c \in {"null", "Here"} -> 4
      [] OTHER -> 40

\* s without its last n characters; a token cut in two is no token any more.
RECURSIVE dropLast(_, _)
dropLast(s, n) ==
    IF n = 0 \/ s = <<>> THEN s
    ELSE IF TokenLength(s[Len(s)]) <= n
         THEN dropLast(SubSeq(s, 1, Len(s) - 1), n - TokenLength(s[Len(s)]))
         ELSE SubSeq(s, 1, Len(s) - 1) \o <<"CUT">>

\* lib/supabase lines 121-127.
libStrip(text) ==
    LET jsonString == trim(text)
    IN  IF jsonString # <<>> /\ Head(jsonString) \in FenceTokens
        THEN trim(dropLast(Tail(jsonString), 3))
        ELSE jsonString

\* lib/supabase lines 113-135 once the request has resolved.
findMatchingJobsLib(resp) ==
    IF resp.kind # "text" THEN Returned(Arr(<<>>))
    ELSE LET matchedJobs == JSONparse(libStrip(resp.text))
         IN  IF matchedJobs.ok THEN Returned(matchedJobs.value) ELSE Returned(Arr(<<>>))

\* What fetch and response.json() resolve with for the JSearch API: a
\* rejection, a status that is not 2xx, a body that is no JSON, or a body
\* whose data is missing, no array, or an array of raw jobs.
RawJob1 == [kind |-> "object", title |-> "Backend Engineer", match_percentage |-> Undefined]

RawJob2 == [kind |-> "object", title |-> "Data Engineer", match_percentage |-> Undefined]

\* Line 251: slice(0, 10).
MaxDirectJobs == 10

HttpResponses ==
    { [kind |-> k, text |-> <<>>, data |-> JsUndefined] : k \in {"rejected", "status", "badjson"} }
        \cup { [kind |-> "body", text |-> <<>>, data |-> d] :
                 d \in {JsUndefined, JsObject, Arr(<<>>), Arr(<<RawJob1>>),
                        Arr(<<RawJob1, RawJob2>>), Arr(<<RawJob1, JobNull>>),
                        Arr([i \in 1..(MaxDirectJobs + 1) |->
                               IF i = 1 THEN RawJob1 ELSE RawJob2])} }

\* Math.random() in units of 1/RandomSteps.
RandomSteps == 21

RandomDraws == {0, RandomSteps - 1}

\* The draws of Math.random for the jobs of one response: one value for the
\* jobs at odd places, one for those at even places.
DrawSeqs ==
    { [i \in 1..MaxDirectJobs |-> IF i % 2 = 1 THEN a ELSE b] :
        a \in RandomDraws, b \in RandomDraws }

\* Line 255 with the range of the prompts, 75 to 100.
randomMatchTo100(u) == ((u * (100 - 75 + 1)) \div RandomSteps) + 75

\* Line 255: Math.floor(Math.random() * (95 - 75 + 1) + 75)
randomMatch(u) == ((u * (95 - 75 + 1)) \div RandomSteps) + 75

\* apiService lines 244-269 once fetch and response.json() have resolved;
\* rnd[i] is the draw of Math.random for the i-th job.
findMatchingJobsDirect(resp, rnd) ==
    IF resp.kind # "body" THEN Returned(Arr(<<>>))
    ELSE IF resp.data.kind \in {"null", "undefined"} THEN Returned(Arr(<<>>))
    ELSE IF ~hasMap(resp.data) THEN Returned(Arr(<<>>))
    ELSE LET data == SubSeq(resp.data.items, 1,
                            IF Len(resp.data.items) < MaxDirectJobs
                            THEN Len(resp.data.items) ELSE MaxDirectJobs)
         IN  IF \E i \in 1..Len(data) : data[i].kind = "null"
             THEN Returned(Arr(<<>>))
             ELSE Returned(Arr([i \in 1..Len(data) |->
                     [kind |-> "object", title |-> data[i].title,
                      match_percentage |-> Num(randomMatch(rnd[i]))]]))

(***************************************************************************)
(* handleAnalyze, lines 56-66.                                             *)
(***************************************************************************)
\* Lines 63-66 once findMatchingJobs has returned (l holds matched_jobs), and
\* updateResumeWithAnalysis (part_001 lines 93-109) up to its await of the
\* header update.
Persist(r, l, before, called) ==
    /\ ui' = [ui EXCEPT ![r].progress = 90, ![r].status = "Finalizing your report..."]
    /\ progressLog' = [progressLog EXCEPT ![r] = @ \o before \o <<90>>]
    /\ loc' = [loc EXCEPT ![r] = l]
    /\ calls' = [calls EXCEPT ![r] = @ \o called \o <<"updateResumeWithAnalysis">>]
    /\ reqs' = [reqs EXCEPT ![r] = @ \o <<"resumes.update">>]
    /\ pc' = [pc EXCEPT ![r] = "header"]

AnalyzeResponses ==
    { [outcome |-> o, value |-> NoAnalysis] : o \in {"rejected", "unparsable", "null"} }
        \cup { [outcome |-> "data", value |-> a] : a \in AnalysisValues }

\* analyzeResume with a parse that yields null instead of throwing.
analyzeResumeNoThrow(resp) ==
    IF resp.outcome = "rejected"
    THEN [data |-> "null", error |-> TRUE, value |-> NoAnalysis]
    ELSE [data |-> IF resp.outcome = "unparsable" THEN "null" ELSE resp.outcome,
          error |-> FALSE, value |-> resp.value]

\* analyzeResume (apiService lines 81-89): {data, error: null} when the text
\* parses, {data: null, error} from the catch.
analyzeResume(resp) ==
    IF resp.outcome \in {"rejected", "unparsable"}
    THEN [data |-> "null", error |-> TRUE, value |-> NoAnalysis]
    ELSE [data |-> resp.outcome, error |-> FALSE, value |-> resp.value]

\* Line 57: analysisError || !analysisData
analysisFailed(res) == res.error \/ res.data = "null"

\* The request findMatchingJobs issues first.
jobsRequest(source) ==
    IF source = "direct" THEN "fetch.jsearch" ELSE "generateContent.jobs"

\* generateContent of analyzeResume resolves; lines 56-61, findMatchingJobs
\* up to its first await, and, when it returns [] for no titles, lines 63-66.
AnalyzeResolve(r, resp) ==
    /\ pc[r] = "analyze"
    /\ LET res == analyzeResume(resp)
           got == Ret("analyzeResume", res.error, res.data # "null")
       IN  IF analysisFailed(res)
           THEN /\ rets' = [rets EXCEPT ![r] = Append(@, got)]
                /\ Catch(r, "AI analysis failed.", <<>>)
                /\ loc' = [loc EXCEPT ![r].extraction = resp.outcome]
                /\ UNCHANGED <<calls, reqs>>
           ELSE IF noTitles(res.value.job_titles)
           THEN /\ rets' = [rets EXCEPT ![r] =
                              @ \o <<got, Ret("findMatchingJobs", FALSE, TRUE)>>]
                /\ Persist(r, [loc[r] EXCEPT !.extraction = resp.outcome,
                                             !.analysisData = res.value,
                                             !.matched_jobs = Arr(<<>>)],
                           <<70>>, <<"findMatchingJobs">>)
           ELSE /\ rets' = [rets EXCEPT ![r] = Append(@, got)]
                /\ Milestone(r, 70, "Searching for live jobs in India...")
                /\ loc' = [loc EXCEPT ![r].extraction = resp.outcome,
                                      ![r].analysisData = res.value]
                /\ calls' = [calls EXCEPT ![r] = @ \o <<"findMatchingJobs">>]
                /\ reqs' = [reqs EXCEPT ![r] = @ \o <<jobsRequest(jobSource[r])>>]
                /\ pc' = [pc EXCEPT ![r] = "jobs"]
    /\ UNCHANGED <<appVars, file, user, jobSource, upd, resumes, rows>>

\* findMatchingJobs has returned or thrown: handleAnalyze goes on at line 63,
\* or to its catch.
AfterJobs(r, res, l) ==
    IF res.threw
    THEN /\ rets' = [rets EXCEPT ![r] = Append(@, Ret("findMatchingJobs", TRUE, FALSE))]
         /\ Catch(r, "An unexpected error occurred.", <<>>)
         /\ loc' = [loc EXCEPT ![r] = l]
         /\ UNCHANGED <<calls, reqs>>
    ELSE /\ rets' = [rets EXCEPT ![r] = Append(@, Ret("findMatchingJobs", FALSE, TRUE))]
         /\ Persist(r, [l EXCEPT !.matched_jobs = res.value], <<>>, <<>>)

\* The first generateContent of the grounded search resolves.
JobsResolve(r, resp) ==
    /\ pc[r] = "jobs"
    /\ jobSource[r] = "grounded"
    /\ LET res == findMatchingJobsFirst(resp)
           l == [loc[r] EXCEPT !.first = resp, !.jsonText = res.jsonText]
       IN  IF res.done
           THEN AfterJobs(r, res, l)
           ELSE /\ loc' = [loc EXCEPT ![r] = l]
                /\ reqs' = [reqs EXCEPT ![r] = @ \o <<"generateContent.fix">>]
                /\ pc' = [pc EXCEPT ![r] = "fix"]
                /\ UNCHANGED <<ui, progressLog, calls, rets>>
    /\ UNCHANGED <<appVars, file, user, jobSource, upd, resumes, rows>>

\* The repair generateContent of the grounded search resolves.
FixResolve(r, resp) ==
    /\ pc[r] = "fix"
    /\ AfterJobs(r, findMatchingJobsRepair(resp), [loc[r] EXCEPT !.repair = resp])
    /\ UNCHANGED <<appVars, file, user, jobSource, upd, resumes, rows>>

\* The generateContent of lib/supabase's findMatchingJobs resolves.
LibResolve(r, resp) ==
    /\ pc[r] = "jobs"
    /\ jobSource[r] = "lib"
    /\ AfterJobs(r, findMatchingJobsLib(resp), [loc[r] EXCEPT !.first = resp])
    /\ UNCHANGED <<appVars, file, user, jobSource, upd, resumes, rows>>

\* fetch and response.json() of the JSearch findMatchingJobs resolve.
DirectResolve(r, resp, rnd) ==
    /\ pc[r] = "jobs"
    /\ jobSource[r] = "direct"
    /\ AfterJobs(r, findMatchingJobsDirect(resp, rnd), [loc[r] EXCEPT !.first = resp])
    /\ UNCHANGED <<appVars, file, user, jobSource, upd, resumes, rows>>


(***************************************************************************)
(* supabaseService.updateResumeWithAnalysis, part_001 lines 88-135.        *)
(***************************************************************************)
\* Line 96 without its test of the type.
sanitizedScoreUnchecked(score) == score

\* Lines 96-98.
sanitizedScore(score) == IF typeofNumber(score) THEN score ELSE Num(0)

sanitizedExpLevel(experience_level) ==
    IF truthy(experience_level) THEN experience_level ELSE Str("entry-level")

sanitizedTotalExp(total_experience) ==
    IF typeofNumber(total_experience) THEN total_experience ELSE Num(0)

\* The header update of lines 100-109 applied to the row.
updatedRow(row, a) ==
    [row EXCEPT !.score = sanitizedScore(a.score),
                !.experience_level = sanitizedExpLevel(a.experience_level),
                !.total_experience = sanitizedTotalExp(a.total_experience),
                !.extracted_text = "Text extraction handled by AI model.",
                !.status = "completed"]

\* Lines 113-115.  Confidence is kept in hundredths: 80 is 0.8.
skillsToInsert(skills, resumeId) ==
    [i \in 1..Len(skills) |->
        [name |-> skills[i].name, category |-> skills[i].category,
         resume_id |-> resumeId,
         confidence |-> IF typeofNumber(skills[i].confidence)
                        THEN skills[i].confidence ELSE Num(80)]]

feedbackToInsert(feedback, resumeId) ==
    [i \in 1..Len(feedback) |-> [suggestion |-> feedback[i], resume_id |-> resumeId]]

jobsToInsert(matched_jobs, resumeId) ==
    [i \in 1..Len(matched_jobs) |->
        [title |-> matched_jobs[i].title, resume_id |-> resumeId,
         match_percentage |-> IF typeofNumber(matched_jobs[i].match_percentage)
                              THEN matched_jobs[i].match_percentage ELSE Num(0)]]

\* Whether lines 113-115 throw a TypeError: map is called on a value that is
\* no array, or j.match_percentage is read of a null element.
mapThrows(a, matched_jobs) ==
    \/ ~hasMap(orEmpty(a.skills))
    \/ ~hasMap(orEmpty(a.feedback))
    \/ ~hasMap(orEmpty(matched_jobs))
    \/ \E i \in 1..Len(orEmpty(matched_jobs).items) :
           orEmpty(matched_jobs).items[i].kind = "null"

\* The three lists of lines 113-115, by table.
rowsToInsert(a, matched_jobs, resumeId) ==
    [t \in TableSet |->
        CASE t = "skills" -> skillsToInsert(orEmpty(a.skills).items, resumeId)
          [] t = "feedback" -> feedbackToInsert(orEmpty(a.feedback).items, resumeId)
          [] OTHER -> jobsToInsert(orEmpty(matched_jobs).items, resumeId)]

\* The error a failed request of table t resolves with.
ErrorOf(t) ==
    CASE t = "skills" -> "E_skills"
      [] t = "feedback" -> "E_feedback"
      [] OTHER -> "E_matched_jobs"

InsertErrors == { ErrorOf(t) : t \in TableSet }

\* Lines 117-121 without the tests of the lengths.
issueInsertsAlways(toInsert) == [t \in TableSet |-> "pending"]

\* Lines 117-121 without the insert of the matched jobs.
issueInsertsNoJobs(toInsert) ==
    [t \in TableSet |->
        IF Len(toInsert[t]) > 0 /\ t # "matched_jobs" THEN "pending" ELSE "skipped"]

\* Lines 117-121: an insert is issued for a list that is not empty; an empty
\* list is a promise already resolved with {error: null}.
issueInserts(toInsert) ==
    [t \in TableSet |-> IF Len(toInsert[t]) > 0 THEN "pending" ELSE "skipped"]

insertRequests(ins) ==
    LET req(i) == IF ins[Tables[i]] = "pending" THEN <<Tables[i] \o ".insert">> ELSE <<>>
    IN  req(1) \o req(2) \o req(3)

\* A join that goes on at the first failure, as Promise.all does for a
\* promise that rejects.
allResolvedOrFailed(ins) ==
    \/ \A t \in TableSet : ins[t] # "pending"
    \/ \E t \in TableSet : ins[t] = "err"

\* The await of Promise.all (line 117) goes on when no insert is pending.
allResolved(ins) == \A t \in TableSet : ins[t] # "pending"

\* Lines 123-125 reading only the first two results.
firstErrorSkipsJobs(ins) ==
    IF ins["skills"] = "err" THEN ErrorOf("skills")
    ELSE IF ins["feedback"] = "err" THEN ErrorOf("feedback")
    ELSE "none"

\* Lines 123-125 reading the results from the last to the first.
firstErrorReversed(ins) ==
    IF ins["matched_jobs"] = "err" THEN ErrorOf("matched_jobs")
    ELSE IF ins["feedback"] = "err" THEN ErrorOf("feedback")
    ELSE IF ins["skills"] = "err" THEN ErrorOf("skills")
    ELSE "none"

\* Lines 123-125: the results are read in the order of the array.
firstError(ins) ==
    IF ins["skills"] = "err" THEN ErrorOf("skills")
    ELSE IF ins["feedback"] = "err" THEN ErrorOf("feedback")
    ELSE IF ins["matched_jobs"] = "err" THEN ErrorOf("matched_jobs")
    ELSE "none"

\* The rows of table t that belong to resume id.
rowsOf(rowsNow, t, id) == SelectSeq(rowsNow[t], LAMBDA x : x.resume_id = id)

\* A select without the child collections.
getResumeDataHeaderOnly(id, resumesNow, rowsNow) ==
    [id |-> id, row |-> resumesNow[id], skills |-> <<>>, feedback |-> <<>>,
     matched_jobs |-> <<>>]

\* getResumeData, part_001 lines 40-58: the row with its child collections.
getResumeData(id, resumesNow, rowsNow) ==
    [id |-> id, row |-> resumesNow[id],
     skills |-> rowsOf(rowsNow, "skills", id),
     feedback |-> rowsOf(rowsNow, "feedback", id),
     matched_jobs |-> rowsOf(rowsNow, "matched_jobs", id)]

\* A catch that marks the record as failed.
ReturnErrorMarksFailed(r, u, e, resumesNow, rowsNow) ==
    /\ upd' = [upd EXCEPT ![r] = [u EXCEPT !.result = [data |-> <<>>, error |-> e]]]
    /\ rets' = [rets EXCEPT ![r] = Append(@, Ret("updateResumeWithAnalysis", TRUE, FALSE))]
    /\ resumes' = [resumesNow EXCEPT ![loc[r].newResume].status = "failed"]
    /\ rows' = rowsNow
    /\ Catch(r, "Failed to save analysis results.", <<>>)
    /\ UNCHANGED reqs

\* A catch that deletes the child rows already stored.
ReturnErrorCleanup(r, u, e, resumesNow, rowsNow) ==
    /\ upd' = [upd EXCEPT ![r] = [u EXCEPT !.result = [data |-> <<>>, error |-> e]]]
    /\ rets' = [rets EXCEPT ![r] = Append(@, Ret("updateResumeWithAnalysis", TRUE, FALSE))]
    /\ resumes' = resumesNow
    /\ rows' = [t \in TableSet |->
                  SelectSeq(rowsNow[t], LAMBDA x : x.resume_id # loc[r].newResume)]
    /\ Catch(r, "Failed to save analysis results.", <<>>)
    /\ UNCHANGED reqs

\* A catch that puts the record back to "processing".
ReturnErrorRollback(r, u, e, resumesNow, rowsNow) ==
    /\ upd' = [upd EXCEPT ![r] = [u EXCEPT !.result = [data |-> <<>>, error |-> e]]]
    /\ rets' = [rets EXCEPT ![r] = Append(@, Ret("updateResumeWithAnalysis", TRUE, FALSE))]
    /\ resumes' = [resumesNow EXCEPT ![loc[r].newResume].status = "processing"]
    /\ rows' = rowsNow
    /\ Catch(r, "Failed to save analysis results.", <<>>)
    /\ UNCHANGED reqs

\* updateResumeWithAnalysis returns {data: null, error} from its catch (lines
\* 131-134), which writes nothing: the tables stay as the requests left them
\* (resumesNow, rowsNow).  handleAnalyze then throws at line 67.
ReturnError(r, u, e, resumesNow, rowsNow) ==
    /\ upd' = [upd EXCEPT ![r] = [u EXCEPT !.result = [data |-> <<>>, error |-> e]]]
    /\ rets' = [rets EXCEPT ![r] = Append(@, Ret("updateResumeWithAnalysis", TRUE, FALSE))]
    /\ resumes' = resumesNow
    /\ rows' = rowsNow
    /\ Catch(r, "Failed to save analysis results.", <<>>)
    /\ UNCHANGED reqs

\* Lines 123-127 once Promise.all has resolved: throw the first error, or
\* call getResumeData.
Join(r, u, rowsNow) ==
    IF firstError(u.ins) # "none"
    THEN ReturnError(r, u, firstError(u.ins), resumes, rowsNow)
    ELSE /\ upd' = [upd EXCEPT ![r] = u]
         /\ reqs' = [reqs EXCEPT ![r] = @ \o <<"resumes.select">>]
         /\ pc' = [pc EXCEPT ![r] = "reread"]
         /\ rows' = rowsNow
         /\ UNCHANGED <<ui, progressLog, rets, resumes>>

\* The header update without its filter on the id: every record is written.
HeaderCommitAllRows(r) ==
    /\ pc[r] = "header"
    /\ resumes' = [i \in DOMAIN resumes |-> updatedRow(resumes[i], loc[r].analysisData)]
    /\ pc' = [pc EXCEPT ![r] = "headerDone"]
    /\ UNCHANGED <<appVars, file, user, jobSource, ui, progressLog, calls, rets, reqs, loc, upd, rows>>

\* The database applies the header update of lines 100-109; its response is
\* on the way.
HeaderCommit(r) ==
    /\ pc[r] = "header"
    /\ resumes' = [resumes EXCEPT ![loc[r].newResume] = updatedRow(@, loc[r].analysisData)]
    /\ pc' = [pc EXCEPT ![r] = "headerDone"]
    /\ UNCHANGED <<appVars, file, user, jobSource, ui, progressLog, calls, rets, reqs, loc, upd, rows>>

\* Line 111 missing: the error of the header update is not thrown, and the
\* inserts of lines 113-121 are issued.
HeaderFailIgnored(r) ==
    /\ pc[r] = "header"
    /\ LET toInsert == rowsToInsert(loc[r].analysisData, Arr(<<>>), loc[r].newResume)
           u == [upd[r] EXCEPT !.header = "err", !.toInsert = toInsert,
                               !.ins = [t \in TableSet |->
                                          IF Len(toInsert[t]) > 0 THEN "pending"
                                          ELSE "skipped"]]
       IN  /\ upd' = [upd EXCEPT ![r] = u]
           /\ reqs' = [reqs EXCEPT ![r] = @ \o insertRequests(u.ins)]
           /\ pc' = [pc EXCEPT ![r] = IF \A t \in TableSet : u.ins[t] # "pending"
                                      THEN "reread" ELSE "inserts"]
           /\ UNCHANGED <<ui, progressLog, rets, resumes, rows>>
    /\ UNCHANGED <<appVars, file, user, jobSource, calls, loc>>

\* The header update resolves with an error: it was not applied.  Line 111.
HeaderFail(r) ==
    /\ pc[r] = "header"
    /\ ReturnError(r, [upd[r] EXCEPT !.header = "err"], "E_header", resumes, rows)
    /\ UNCHANGED <<appVars, file, user, jobSource, calls, loc>>

\* The header update resolves without error; lines 111-121, and lines 123-127
\* when no insert is issued.
HeaderResolve(r) ==
    /\ pc[r] = "headerDone"
    /\ LET a == loc[r].analysisData
           mj == loc[r].matched_jobs
       IN  IF mapThrows(a, mj)
           THEN ReturnError(r, [upd[r] EXCEPT !.header = "ok"], "TypeError", resumes, rows)
           ELSE LET toInsert == rowsToInsert(a, mj, loc[r].newResume)
                    u == [upd[r] EXCEPT !.header = "ok", !.toInsert = toInsert,
                                        !.ins = issueInserts(toInsert)]
                IN  IF allResolved(u.ins)
                    THEN Join(r, u, rows)
                    ELSE /\ upd' = [upd EXCEPT ![r] = u]
                         /\ reqs' = [reqs EXCEPT ![r] = @ \o insertRequests(u.ins)]
                         /\ pc' = [pc EXCEPT ![r] = "inserts"]
                         /\ UNCHANGED <<ui, progressLog, rets, resumes, rows>>
    /\ UNCHANGED <<appVars, file, user, jobSource, calls, loc>>

\* The insert into table t resolves: with an error and no row stored, or with
\* its rows stored.  When it is the last one, lines 123-127.
InsertResolve(r, t, insertError) ==
    /\ pc[r] = "inserts"
    /\ upd[r].ins[t] = "pending"
    /\ LET u == [upd[r] EXCEPT !.ins[t] = IF insertError THEN "err" ELSE "ok",
                               !.order = Append(@, t)]
           rowsNow == IF insertError THEN rows
                      ELSE [rows EXCEPT ![t] = @ \o upd[r].toInsert[t]]
       IN  IF allResolved(u.ins)
           THEN Join(r, u, rowsNow)
           ELSE /\ upd' = [upd EXCEPT ![r] = u]
                /\ rows' = rowsNow
                /\ UNCHANGED <<pc, ui, progressLog, rets, reqs, resumes>>
    /\ UNCHANGED <<appVars, file, user, jobSource, calls, loc>>

\* Line 67 missing: handleAnalyze does not look at what
\* updateResumeWithAnalysis returned.
RereadResolveUnchecked(r, selectError) ==
    /\ pc[r] = "reread"
    /\ upd' = [upd EXCEPT ![r].result =
                 IF selectError THEN [data |-> <<>>, error |-> "E_select"]
                 ELSE [data |-> <<getResumeData(loc[r].newResume, resumes, rows)>>,
                       error |-> "none"]]
    /\ rets' = [rets EXCEPT ![r] =
                  Append(@, Ret("updateResumeWithAnalysis", selectError, ~selectError))]
    /\ Milestone(r, 100, "Analysis complete!")
    /\ pc' = [pc EXCEPT ![r] = "navigated"]
    /\ UNCHANGED <<appVars, file, user, jobSource, calls, loc, reqs, resumes, rows>>

\* A getResumeData that repeats its select once after an error.
RereadResolveRetry(r, selectError) ==
    /\ pc[r] = "reread"
    /\ IF selectError
       THEN IF Len(SelectSeq(reqs[r], LAMBDA x : x = "resumes.select")) < 2
            THEN /\ reqs' = [reqs EXCEPT ![r] = @ \o <<"resumes.select">>]
                 /\ UNCHANGED <<pc, ui, progressLog, rets, upd, resumes, rows>>
            ELSE /\ ReturnError(r, upd[r], "E_select", resumes, rows)
       ELSE /\ upd' = [upd EXCEPT ![r].result =
                         [data |-> <<getResumeData(loc[r].newResume, resumes, rows)>>,
                          error |-> "none"]]
            /\ rets' = [rets EXCEPT ![r] =
                          Append(@, Ret("updateResumeWithAnalysis", FALSE, TRUE))]
            /\ Milestone(r, 100, "Analysis complete!")
            /\ pc' = [pc EXCEPT ![r] = "navigated"]
            /\ UNCHANGED <<reqs, resumes, rows>>
    /\ UNCHANGED <<appVars, file, user, jobSource, calls, loc>>

\* The select of getResumeData resolves; part_001 lines 53-57 and 129, and
\* handleAnalyze lines 67-71.
RereadResolve(r, selectError) ==
    /\ pc[r] = "reread"
    /\ IF selectError
       THEN ReturnError(r, upd[r], "E_select", resumes, rows)
       ELSE /\ upd' = [upd EXCEPT ![r].result =
                         [data |-> <<getResumeData(loc[r].newResume, resumes, rows)>>,
                          error |-> "none"]]
            /\ rets' = [rets EXCEPT ![r] =
                          Append(@, Ret("updateResumeWithAnalysis", FALSE, TRUE))]
            /\ Milestone(r, 100, "Analysis complete!")
            /\ pc' = [pc EXCEPT ![r] = "navigated"]
            /\ UNCHANGED <<reqs, resumes, rows>>
    /\ UNCHANGED <<appVars, file, user, jobSource, calls, loc>>

(***************************************************************************)
(* The specification.                                                      *)
(***************************************************************************)
Next ==
    \E r \in Runs :
        \/ \E f \in DroppedFiles : onDrop(r, f)
        \/ handleAnalyze(r)
        \/ \E e \in BOOLEAN, url \in {"", "https://storage/cv.pdf"} : UploadResolve(r, e, url)
        \/ \E e \in BOOLEAN : CreateResolve(r, e)
        \/ \E e \in BOOLEAN : EncodeResolve(r, e)
        \/ \E resp \in AnalyzeResponses : AnalyzeResolve(r, resp)
        \/ \E resp \in ModelResponses : JobsResolve(r, resp)
        \/ \E resp \in ModelResponses : FixResolve(r, resp)
        \/ \E resp \in ModelResponses : LibResolve(r, resp)
        \/ \E resp \in HttpResponses, rnd \in DrawSeqs : DirectResolve(r, resp, rnd)
        \/ HeaderCommit(r)
        \/ HeaderFail(r)
        \/ HeaderResolve(r)
        \/ \E t \in TableSet, e \in BOOLEAN : InsertResolve(r, t, e)
        \/ \E e \in BOOLEAN : RereadResolve(r, e)

Spec == Init /\ [][Next]_vars

\* An operation run r awaits settles: the file encoding, or a request to
\* storage, the database, the model or the job-search API.
Settle(r) ==
    \/ \E e \in BOOLEAN, url \in {"", "https://storage/cv.pdf"} : UploadResolve(r, e, url)
    \/ \E e \in BOOLEAN : CreateResolve(r, e)
    \/ \E e \in BOOLEAN : EncodeResolve(r, e)
    \/ \E resp \in AnalyzeResponses : AnalyzeResolve(r, resp)
    \/ \E resp \in ModelResponses : JobsResolve(r, resp)
    \/ \E resp \in ModelResponses : FixResolve(r, resp)
    \/ \E resp \in ModelResponses : LibResolve(r, resp)
    \/ \E resp \in HttpResponses, rnd \in DrawSeqs : DirectResolve(r, resp, rnd)
    \/ HeaderCommit(r)
    \/ HeaderFail(r)
    \/ HeaderResolve(r)
    \/ \E t \in TableSet, e \in BOOLEAN : InsertResolve(r, t, e)
    \/ \E e \in BOOLEAN : RereadResolve(r, e)

\* Every operation a run awaits eventually settles, with a result or with an
\* error; the user is free never to drop a file or start a run.
SpecLive == Init /\ [][Next]_vars /\ \A r \in Runs : WF_vars(Settle(r))

(***************************************************************************)
(* Two runs of handleAnalyze side by side (two pages, of one user or of    *)
(* two), on the same tables.                                               *)
(***************************************************************************)
TwoRuns == {"r1", "r2"}

TwoRunUsers == { [r \in TwoRuns |-> IF r = "r1" THEN "u1" ELSE u] : u \in {"u1", "u2"} }

TwoRunSources ==
    { [r \in TwoRuns |-> IF r = "r1" THEN "grounded" ELSE "lib"],
      [r \in TwoRuns |-> "direct"] }

TwoRunAnalyses ==
    { [outcome |-> "data", value |-> a] :
        a \in { v \in AnalysisValues :
                  v.experience_level \in {Str("mid-level"), Undefined} } }

TwoRunTexts ==
    { [kind |-> "text", text |-> t, data |-> JsUndefined] :
        t \in { <<"[", "J1", ",", "J2", "]">>, <<"Here", "[", "J1", "]">> } }

InitTwo ==
    /\ pc = [r \in TwoRuns |-> "idle"]
    /\ file = [r \in TwoRuns |-> ResumeFile]
    /\ user \in TwoRunUsers
    /\ jobSource \in TwoRunSources
    /\ ui = [r \in TwoRuns |->
               [isLoading |-> FALSE, progress |-> 0, status |-> ReadyText, error |-> ""]]
    /\ progressLog = [r \in TwoRuns |-> <<>>]
    /\ calls = [r \in TwoRuns |-> <<>>]
    /\ rets = [r \in TwoRuns |-> <<>>]
    /\ reqs = [r \in TwoRuns |-> <<>>]
    /\ loc = [r \in TwoRuns |->
               [file_url |-> "", newResume |-> 0, extraction |-> "none",
                analysisData |-> NoAnalysis, first |-> NoResponse, repair |-> NoResponse,
                jsonText |-> <<>>, matched_jobs |-> JsUndefined]]
    /\ upd = [r \in TwoRuns |->
               [header |-> "none", toInsert |-> NoRows, ins |-> NoInserts,
                order |-> <<>>, result |-> NoResult]]
    /\ resumes = <<>>
    /\ rows = NoRows
    /\ AppInit

NextTwo ==
    \E r \in TwoRuns :
        \/ handleAnalyze(r)
        \/ UploadResolve(r, FALSE, "https://storage/cv.pdf")
        \/ \E e \in BOOLEAN : CreateResolve(r, e)
        \/ EncodeResolve(r, FALSE)
        \/ \E resp \in TwoRunAnalyses : AnalyzeResolve(r, resp)
        \/ \E resp \in TwoRunTexts : JobsResolve(r, resp)
        \/ \E resp \in { x \in TwoRunTexts : JSONparse(x.text).ok } : FixResolve(r, resp)
        \/ \E resp \in { x \in TwoRunTexts : JSONparse(x.text).ok } : LibResolve(r, resp)
        \/ DirectResolve(r, [kind |-> "body", text |-> <<>>, data |-> Arr(<<RawJob1>>)],
                         [i \in 1..MaxDirectJobs |-> 0])
        \/ HeaderCommit(r)
        \/ HeaderFail(r)
        \/ HeaderResolve(r)
        \/ \E t \in TableSet, e \in BOOLEAN : InsertResolve(r, t, e)
        \/ RereadResolve(r, FALSE)

SpecTwo == InitTwo /\ [][NextTwo]_vars

(***************************************************************************)
(* AppProvider, lines 39-79: getInitialSession and the auth listener.      *)
(***************************************************************************)
\* A state setter: it has no effect once the provider is unmounted.
set(next) == IF mounted THEN next ELSE app

\* Lines 42-45 once getSession has resolved with session s; without a user
\* the function ends through finally (line 54).
getSessionResolve(s) ==
    /\ handlers[1].at = "getSession"
    /\ IF s.user # ""
       THEN /\ app' = set([app EXCEPT !.session = s, !.user = s.user])
            /\ handlers' = [handlers EXCEPT ![1].at = "getUserProfile", ![1].id = s.user]
       ELSE /\ app' = set([app EXCEPT !.session = s, !.user = "", !.loading = FALSE])
            /\ handlers' = [handlers EXCEPT ![1].at = "done"]
    /\ UNCHANGED <<uploadVars, handled, mounted>>

\* Lines 46-48 and 65-67 once getUserProfile has resolved: with the profile
\* of the user, or with null after an error (part_001 lines 5-12).
getUserProfileResolve(h, found) ==
    /\ h \in DOMAIN handlers
    /\ handlers[h].at = "getUserProfile"
    /\ LET userProfile == IF found THEN ProfileOf(handlers[h].id) ELSE NullProfile
       IN  app' = set([app EXCEPT !.profile = userProfile])
    /\ handlers' = [handlers EXCEPT ![h].at = "fetchUserResumes"]
    /\ UNCHANGED <<uploadVars, handled, mounted>>

\* Lines 48-54 and 67-69 once fetchUserResumes has resolved: with the resumes
\* of the user, or with [] after an error (part_001 lines 25-37).
fetchUserResumesResolve(h, found) ==
    /\ h \in DOMAIN handlers
    /\ handlers[h].at = "fetchUserResumes"
    /\ LET userResumes == IF found THEN ResumesOf(handlers[h].id) ELSE <<>>
       IN  app' = set([app EXCEPT !.resumes = userResumes, !.loading = FALSE])
    /\ handlers' = [handlers EXCEPT ![h].at = "done"]
    /\ UNCHANGED <<uploadVars, handled, mounted>>

\* Lines 60-74: the listener is called with session s and runs to its first
\* await (line 65), or to its end when s has no user (lines 71-72).
onAuthStateChange(s) ==
    /\ mounted
    /\ Len(handled) < MaxEvents
    /\ handled' = Append(handled, s)
    /\ IF s.user # ""
       THEN /\ app' = [app EXCEPT !.session = s, !.user = s.user, !.loading = TRUE]
            /\ handlers' = Append(handlers,
                    [kind |-> "listener", at |-> "getUserProfile", id |-> s.user])
       ELSE /\ app' = [app EXCEPT !.session = s, !.user = "",
                                  !.profile = NullProfile, !.resumes = <<>>]
            /\ UNCHANGED handlers
    /\ UNCHANGED <<uploadVars, mounted>>

\* Lines 76-78: the cleanup of the effect.
unsubscribe ==
    /\ mounted
    /\ mounted' = FALSE
    /\ UNCHANGED <<uploadVars, app, handlers, handled>>

InitAuth ==
    /\ Init
    /\ user = [r \in Runs |-> ""]
    /\ jobSource = [r \in Runs |-> "grounded"]

NextAuth ==
    \/ \E s \in Sessions : getSessionResolve(s)
    \/ \E h \in HandlerIds, found \in BOOLEAN : getUserProfileResolve(h, found)
    \/ \E h \in HandlerIds, found \in BOOLEAN : fetchUserResumesResolve(h, found)
    \/ \E s \in Sessions : onAuthStateChange(s)
    \/ unsubscribe

SpecAuth == InitAuth /\ [][NextAuth]_vars


(***************************************************************************)
(* The claims.                                                             *)
(***************************************************************************)
\* A service function failed: it returned an error, or no data.
failedRet(e) == e.error \/ ~e.data

\* The record of run r, once created.
recordOf(r) == resumes[loc[r].newResume]

hasRecord(r) == loc[r].newResume # 0

\* updateResumeWithAnalysis has returned in run r.
updateReturned(r) ==
    \E i \in DOMAIN rets[r] : rets[r][i].fn = "updateResumeWithAnalysis"

issued(r, request) == \E i \in DOMAIN reqs[r] : reqs[r][i] = request

\* The list updateResumeWithAnalysis is given for table t is not empty.
inputOf(r, t) ==
    CASE t = "skills" -> orEmpty(loc[r].analysisData.skills)
      [] t = "feedback" -> orEmpty(loc[r].analysisData.feedback)
      [] OTHER -> orEmpty(loc[r].matched_jobs)

nonEmptyInput(r, t) == inputOf(r, t).kind = "array" /\ inputOf(r, t).items # <<>>

\* C1: when uploadResumeFile, createResumeRecord or analyzeResume fails
\* (returns an error or no data), no later service function is called in
\* that run, and the run has ended with an error shown.
C1_AbortPolicy ==
    \A r \in Runs : \A i \in DOMAIN rets[r] :
        (/\ rets[r][i].fn \in {"uploadResumeFile", "createResumeRecord", "analyzeResume"}
         /\ failedRet(rets[r][i]))
        => /\ Len(calls[r]) = i
           /\ calls[r][i] = rets[r][i].fn
           /\ pc[r] = "failed"
           /\ ui[r].error # ""

\* Each of the three fatal stages fails in some run: here the extraction,
\* after an upload and a record creation that succeeded.
C1_Witness ==
    \E r \in Runs :
        /\ Len(rets[r]) = 3
        /\ rets[r][3].fn = "analyzeResume"
        /\ failedRet(rets[r][3])
        /\ ~failedRet(rets[r][1])
        /\ ~failedRet(rets[r][2])

\* C2, as claimed: a record whose status is "completed" has had the insert
\* of each non-empty list attempted.
C2_CompletedAfterInserts ==
    \A r \in Runs :
        (hasRecord(r) /\ recordOf(r).status = "completed")
        => \A t \in TableSet : nonEmptyInput(r, t) => issued(r, t \o ".insert")

\* C2, amended: the status is "completed" before any child insert is issued;
\* what comes only after the inserts is the record being returned:
\* updateResumeWithAnalysis returns data only when the insert of each
\* non-empty list has been issued and has resolved.
C2_ReturnedAfterInserts ==
    \A r \in Runs :
        /\ (\E t \in TableSet : issued(r, t \o ".insert"))
           => recordOf(r).status = "completed"
        /\ upd[r].result.data # <<>>
           => \A t \in TableSet :
                nonEmptyInput(r, t) => issued(r, t \o ".insert") /\ upd[r].ins[t] = "ok"

C2_Witness ==
    \E r \in Runs :
        /\ upd[r].result.data # <<>>
        /\ \A t \in TableSet : nonEmptyInput(r, t) /\ upd[r].ins[t] = "ok"

\* updateResumeWithAnalysis returned the error of a child insert.
insertFailed(r) == updateReturned(r) /\ upd[r].result.error \in InsertErrors

\* C3, as claimed: after an error return caused by a failed insert, the
\* record is not "completed" with the rows of the failed insert missing.
C3_NoCompletedWithMissingRows ==
    \A r \in Runs :
        insertFailed(r)
        => ~(/\ recordOf(r).status = "completed"
             /\ \E t \in TableSet :
                  upd[r].ins[t] = "err" /\ rowsOf(rows, t, loc[r].newResume) = <<>>)

\* C3, amended: a failed insert aborts the update in what it reports only:
\* no re-read is issued and {data: null, error} is returned, while the record
\* is left "completed" and the rows of the failed insert are missing.
C3_AbortLeavesCompleted ==
    \A r \in Runs :
        insertFailed(r)
        => /\ recordOf(r).status = "completed"
           /\ \A t \in TableSet :
                upd[r].ins[t] = "err" => rowsOf(rows, t, loc[r].newResume) = <<>>
           /\ upd[r].result.data = <<>>
           /\ ~issued(r, "resumes.select")
           /\ pc[r] = "failed"

C3_Witness ==
    \E r \in Runs :
        /\ insertFailed(r)
        /\ upd[r].ins["skills"] = "err"
        /\ upd[r].ins["feedback"] = "ok"

\* The text of a response does not parse, as the run's findMatchingJobs
\* reads it.
unparsable(r, resp) ==
    /\ resp.kind = "text"
    /\ ~JSONparse(IF jobSource[r] = "lib" THEN libStrip(resp.text)
                  ELSE stripFence(resp.text)).ok

\* The job search of run r ended in an error it cannot recover from.
unrecoverable(r) ==
    \/ loc[r].first.kind \in {"rejected", "notext", "status", "badjson"}
    \/ unparsable(r, loc[r].first) /\ jobSource[r] = "lib"
    \/ /\ unparsable(r, loc[r].first)
       /\ loc[r].repair.kind \in {"rejected", "notext"} \/ unparsable(r, loc[r].repair)

jobsReturned(r) ==
    \E i \in DOMAIN rets[r] : rets[r][i].fn = "findMatchingJobs"

\* C4: findMatchingJobs never throws: whatever its requests resolve with, it
\* returns a value and handleAnalyze goes on to updateResumeWithAnalysis; on
\* a rejection, a status that is not 2xx, and a text that does not parse
\* (after the repair, where there is one) the value is the empty list.
C4_JobsNeverThrow ==
    \A r \in Runs :
        /\ \A i \in DOMAIN rets[r] :
             rets[r][i].fn = "findMatchingJobs" => ~failedRet(rets[r][i])
        /\ (\E i \in DOMAIN calls[r] : calls[r][i] = "findMatchingJobs")
             /\ pc[r] \notin {"jobs", "fix"}
           => /\ jobsReturned(r)
              /\ \E i \in DOMAIN calls[r] : calls[r][i] = "updateResumeWithAnalysis"
        /\ jobsReturned(r) /\ unrecoverable(r) => loc[r].matched_jobs = Arr(<<>>)

\* The first text and the repair text are both unparsable.
C4_Witness ==
    \E r \in Runs :
        /\ jobsReturned(r)
        /\ unparsable(r, loc[r].first)
        /\ unparsable(r, loc[r].repair)
        /\ loc[r].matched_jobs = Arr(<<>>)


\* C5, as claimed: no outcome of the job search makes a run fail: a run
\* that failed had an upload, a record creation or an extraction that failed,
\* or a persistence request (the header update, an insert, the re-read) that
\* resolved with an error.
C5_JobSearchNeverFatal ==
    \A r \in Runs :
        pc[r] = "failed"
        => \/ \E i \in DOMAIN rets[r] :
                /\ rets[r][i].fn \in {"uploadResumeFile", "createResumeRecord",
                                      "analyzeResume"}
                /\ failedRet(rets[r][i])
           \/ upd[r].result.error \in {"E_header", "E_select"} \cup InsertErrors

\* C6: updateResumeWithAnalysis returns {data: null, error} whenever the
\* header update or one of the child inserts resolved with an error, however
\* many of the others succeeded; it returns data only when the header update
\* and every insert it issued succeeded.
C6_AllOrNothingResult ==
    \A r \in Runs :
        updateReturned(r)
        => /\ (upd[r].header = "err" \/ \E t \in TableSet : upd[r].ins[t] = "err")
              => upd[r].result.data = <<>> /\ upd[r].result.error # "none"
           /\ upd[r].result.data # <<>>
              => /\ upd[r].header = "ok"
                 /\ upd[r].result.error = "none"
                 /\ \A t \in TableSet : upd[r].ins[t] \in {"ok", "skipped"}

\* The insert of the matched jobs failed after the two others succeeded.
C6_Witness ==
    \E r \in Runs :
        /\ updateReturned(r)
        /\ upd[r].ins = [t \in TableSet |-> IF t = "matched_jobs" THEN "err" ELSE "ok"]
        /\ upd[r].result = [data |-> <<>>, error |-> "E_matched_jobs"]

\* C7: when updateResumeWithAnalysis fails because a child insert failed,
\* the header keeps the updated score, experience fields and status
\* "completed", and the rows of the inserts that succeeded remain stored.
C7_NothingUndone ==
    \A r \in Runs :
        insertFailed(r)
        => /\ recordOf(r) =
                updatedRow(newResumeRow(file[r].name, loc[r].file_url, user[r]),
                           loc[r].analysisData)
           /\ \A t \in TableSet :
                upd[r].ins[t] = "ok"
                => /\ upd[r].toInsert[t] # <<>>
                   /\ rowsOf(rows, t, loc[r].newResume) = upd[r].toInsert[t]

C7_Witness ==
    \E r \in Runs :
        /\ insertFailed(r)
        /\ upd[r].ins["matched_jobs"] = "err"
        /\ upd[r].ins["skills"] = "ok"
        /\ rowsOf(rows, "skills", loc[r].newResume) # <<>>

\* The insert that failed first in time.
firstFailedInTime(r) ==
    LET failedAt == { i \in DOMAIN upd[r].order : upd[r].ins[upd[r].order[i]] = "err" }
    IN  upd[r].order[Min(failedAt)]

\* C8, as claimed: the error returned is that of the first child insert to
\* fail, in whatever order the inserts complete.
C8_FirstFailureInTime ==
    \A r \in Runs :
        insertFailed(r) => upd[r].result.error = ErrorOf(firstFailedInTime(r))

\* C8, amended: the error returned is the header update's error if the
\* header update fails, otherwise that of the first failed insert in the
\* fixed order skills, feedback, matched jobs, in whatever order the inserts
\* complete.
C8_FirstFailureInArrayOrder ==
    \A r \in Runs :
        updateReturned(r)
        => /\ upd[r].header = "err" => upd[r].result.error = "E_header"
           /\ (\E t \in TableSet : upd[r].ins[t] = "err")
              => \E i \in 1..3 :
                   /\ upd[r].result.error = ErrorOf(Tables[i])
                   /\ upd[r].ins[Tables[i]] = "err"
                   /\ \A j \in 1..(i - 1) : upd[r].ins[Tables[j]] # "err"

\* Two inserts failed, and the one that failed first in time is not the one
\* whose error is returned.
C8_Witness ==
    \E r \in Runs :
        /\ insertFailed(r)
        /\ upd[r].order[1] = "feedback"
        /\ upd[r].ins["feedback"] = "err"
        /\ upd[r].ins["skills"] = "err"
        /\ upd[r].result.error = "E_skills"

\* The place of a request among the requests of run r (0: not issued).
placeOf(r, request) ==
    IF issued(r, request) THEN Min({ i \in DOMAIN reqs[r] : reqs[r][i] = request })
    ELSE 0

\* C9: no child insert is issued before the header update has resolved, and
\* none is ever issued when the header update resolved with an error.
C9_HeaderBeforeInserts ==
    \A r \in Runs : \A t \in TableSet :
        /\ issued(r, t \o ".insert")
           => /\ upd[r].header = "ok"
              /\ 0 < placeOf(r, "resumes.update")
              /\ placeOf(r, "resumes.update") < placeOf(r, t \o ".insert")
        /\ upd[r].header \in {"none", "err"}
           => ~issued(r, t \o ".insert") /\ upd[r].ins[t] = "none"

C9_Witness ==
    \E r \in Runs :
        /\ upd[r].header = "ok"
        /\ pc[r] = "inserts"
        /\ \A t \in TableSet : issued(r, t \o ".insert")

\* The error the failed inserts lead to, whatever their order in time.
ExpectedError(failed) ==
    IF failed = {} THEN "none"
    ELSE ErrorOf(Tables[Min({ i \in 1..3 : Tables[i] \in failed })])

\* C10: once updateResumeWithAnalysis has returned after issuing its
\* inserts, no insert is pending, and the result and the rows stored are
\* determined by which inserts failed, not by the order they completed in.
C10_OrderIndependent ==
    \A r \in Runs :
        (updateReturned(r) /\ upd[r].header = "ok" /\ upd[r].result.error # "TypeError")
        => LET failed == { t \in TableSet : upd[r].ins[t] = "err" }
           IN  /\ \A t \in TableSet : upd[r].ins[t] \in {"ok", "err", "skipped"}
               /\ Len(upd[r].order) =
                    Cardinality({ t \in TableSet : upd[r].ins[t] \in {"ok", "err"} })
               /\ failed # {} => upd[r].result = [data |-> <<>>,
                                                 error |-> ExpectedError(failed)]
               /\ failed = {} => upd[r].result.error \in {"none", "E_select"}
               /\ \A t \in TableSet :
                    rowsOf(rows, t, loc[r].newResume) =
                        IF upd[r].ins[t] = "ok" THEN upd[r].toInsert[t] ELSE <<>>

\* The three inserts completed in the reverse of the order they were issued
\* in, and one of them failed.
C10_Witness ==
    \E r \in Runs :
        /\ updateReturned(r)
        /\ upd[r].order = <<"matched_jobs", "feedback", "skills">>
        /\ upd[r].ins["feedback"] = "err"

\* The stages of handleAnalyze, in the order of lines 46, 51, 56, 61 and 66.
Stages ==
    <<"uploadResumeFile", "createResumeRecord", "analyzeResume", "findMatchingJobs",
      "updateResumeWithAnalysis">>

\* The stage that issues a request.
stageOf(request) ==
    CASE request = "storage.upload" -> 1
      [] request = "resumes.insert" -> 2
      [] request = "generateContent.analyze" -> 3
      [] request \in {"generateContent.jobs", "generateContent.fix", "fetch.jsearch"} -> 4
      [] OTHER -> 5

\* C11: within one run the stages are called in the order upload, create
\* record, extract, job search, persist, each only after the stage before it
\* has returned, so at most one stage has requests outstanding; every request
\* is issued by the stage that is under way.
C11_StagesSequential ==
    \A r \in Runs :
        /\ Len(calls[r]) <= 5
        /\ \A i \in DOMAIN calls[r] : calls[r][i] = Stages[i]
        /\ Len(rets[r]) <= Len(calls[r])
        /\ Len(calls[r]) <= Len(rets[r]) + 1
        /\ \A i \in DOMAIN rets[r] : rets[r][i].fn = calls[r][i]
        /\ \A i \in DOMAIN reqs[r] : stageOf(reqs[r][i]) <= Len(calls[r])
        /\ \A i, j \in DOMAIN reqs[r] :
             i < j => stageOf(reqs[r][i]) <= stageOf(reqs[r][j])
        /\ pc[r] \in {"upload", "create", "encode", "analyze", "jobs", "fix", "header",
                      "headerDone", "inserts", "reread"}
           => Len(calls[r]) = Len(rets[r]) + 1
        /\ pc[r] \in {"idle", "failed", "navigated"} => Len(calls[r]) = Len(rets[r])

\* The five stages have issued requests, and the inserts are outstanding.
C11_Witness ==
    \E r \in Runs :
        /\ pc[r] = "inserts"
        /\ { stageOf(reqs[r][i]) : i \in DOMAIN reqs[r] } = 1..5
        /\ Len(rets[r]) = 4

\* How many times a request was issued in run r.
timesIssued(r, request) ==
    Cardinality({ i \in DOMAIN reqs[r] : reqs[r][i] = request })

\* C12, as claimed: a findMatchingJobs with grounded search issues a repair
\* request if and only if the parse of the first response failed, issues at
\* most one, and returns the empty list when the repair text does not parse
\* either; it issues at most two model requests.
C12_RepairIffFirstParseFails ==
    \A r \in Runs :
        jobSource[r] \in {"grounded", "lib"}
        => /\ timesIssued(r, "generateContent.jobs") <= 1
           /\ timesIssued(r, "generateContent.fix") <= 1
           /\ jobsReturned(r) /\ loc[r].first.kind # "none"
              => (issued(r, "generateContent.fix") <=> unparsable(r, loc[r].first))
           /\ jobsReturned(r) /\ issued(r, "generateContent.fix")
                /\ unparsable(r, loc[r].repair)
              => loc[r].matched_jobs = Arr(<<>>)

\* C13: in apiService's findMatchingJobs, when the first response does not
\* parse and the repair response is valid JSON, the call returns the parsed
\* repair result; when neither parses it returns the empty list.
C13_RepairResultReturned ==
    \A r \in Runs :
        (jobSource[r] = "grounded" /\ jobsReturned(r) /\ unparsable(r, loc[r].first)
           /\ loc[r].repair.kind = "text")
        => LET fixed == JSONparse(stripFence(loc[r].repair.text))
           IN  /\ ~failedRet(rets[r][4])
               /\ fixed.ok => loc[r].matched_jobs = fixed.value
               /\ ~fixed.ok => loc[r].matched_jobs = Arr(<<>>)

\* The first text is prose around an array, the repair text is the array.
C13_Witness ==
    \E r \in Runs :
        /\ jobSource[r] = "grounded"
        /\ jobsReturned(r)
        /\ loc[r].first.text = <<"Here", "[", "J1", "]">>
        /\ loc[r].repair.text = <<"[", "J1", ",", "J2", "]">>
        /\ loc[r].matched_jobs = Arr(<<Job1, Job2>>)

\* The requests a findMatchingJobs can issue.
JobRequests == {"generateContent.jobs", "generateContent.fix", "fetch.jsearch"}

\* C14: for job titles that are null, undefined or of length 0, each of the
\* three findMatchingJobs returns the empty list and issues no model request
\* and no HTTP request.
C14_NoTitlesNoRequest ==
    \A r \in Runs :
        (/\ \E i \in DOMAIN calls[r] : calls[r][i] = "findMatchingJobs"
         /\ \/ loc[r].analysisData.job_titles \in {JsNull, JsUndefined}
            \/ loc[r].analysisData.job_titles = Arr(<<>>))
        => /\ jobsReturned(r)
           /\ ~failedRet(rets[r][4])
           /\ loc[r].matched_jobs = Arr(<<>>)
           /\ \A q \in JobRequests : ~issued(r, q)
           /\ loc[r].first = NoResponse

\* findMatchingJobs was called with null.
C14_Witness ==
    \E r \in Runs :
        /\ jobsReturned(r)
        /\ loc[r].analysisData.job_titles = JsNull
        /\ loc[r].matched_jobs = Arr(<<>>)
        /\ issued(r, "resumes.update")

\* What lies between a leading and a trailing fence marker of a text.
interiorOf(text) == SubSeq(trim(text), 2, Len(trim(text)) - 1)

\* The text is a valid JSON array between a leading and a trailing fence
\* marker.
fencedArray(text) ==
    /\ Len(trim(text)) >= 3
    /\ Head(trim(text)) \in FenceTokens
    /\ trim(text)[Len(trim(text))] = "FENCE"
    /\ JSONparse(interiorOf(text)).ok
    /\ JSONparse(interiorOf(text)).value.kind = "array"

\* The text is a JSON array with no fence.
bareArray(text) ==
    /\ trim(text) # <<>>
    /\ Head(trim(text)) = "["
    /\ JSONparse(text).ok

\* C15, as claimed: for a first response that is a valid JSON array between
\* fence markers, findMatchingJobs returns what parsing the interior returns;
\* for a bare JSON array it returns what parsing the response returns.
C15_FenceStripping ==
    \A r \in Runs :
        (jobSource[r] \in {"grounded", "lib"} /\ jobsReturned(r)
           /\ loc[r].first.kind = "text")
        => /\ fencedArray(loc[r].first.text)
              => loc[r].matched_jobs = JSONparse(interiorOf(loc[r].first.text)).value
           /\ bareArray(loc[r].first.text)
              => loc[r].matched_jobs = JSONparse(loc[r].first.text).value

\* The value persisted for input v, when d is the default of what is no number.
numberOr(v, d) == IF v.t = "number" THEN v ELSE Num(d)

\* The header update of run r has been applied.
headerApplied(r) == hasRecord(r) /\ recordOf(r).status = "completed"

\* C16: the header persists score 0 and total_experience 0 for inputs that
\* are no numbers; a stored skill has confidence 0.8 (80 hundredths) and a
\* stored job match_percentage 0 where the input had none or no number;
\* numbers are persisted as they are.
C16_NumericDefaults ==
    \A r \in Runs :
        /\ headerApplied(r)
           => /\ recordOf(r).score = numberOr(loc[r].analysisData.score, 0)
              /\ recordOf(r).total_experience =
                    numberOr(loc[r].analysisData.total_experience, 0)
        /\ upd[r].ins["skills"] = "ok"
           => /\ Len(rows["skills"]) = Len(inputOf(r, "skills").items)
              /\ \A i \in DOMAIN rows["skills"] :
                   rows["skills"][i].confidence =
                      numberOr(inputOf(r, "skills").items[i].confidence, 80)
        /\ upd[r].ins["matched_jobs"] = "ok"
           => /\ Len(rows["matched_jobs"]) = Len(inputOf(r, "matched_jobs").items)
              /\ \A i \in DOMAIN rows["matched_jobs"] :
                   rows["matched_jobs"][i].match_percentage =
                      numberOr(inputOf(r, "matched_jobs").items[i].match_percentage, 0)

\* A score "abc", a skill without confidence and a job without
\* match_percentage have been persisted.
C16_Witness ==
    \E r \in Runs :
        /\ headerApplied(r)
        /\ loc[r].analysisData.score = Str("abc")
        /\ recordOf(r).score = Num(0)
        /\ recordOf(r).total_experience = Num(0)
        /\ rows["skills"] # <<>>
        /\ rows["skills"][1].confidence = Num(80)
        /\ Len(rows["matched_jobs"]) = 2
        /\ loc[r].matched_jobs.items[2].match_percentage = Undefined
        /\ rows["matched_jobs"][1].match_percentage = Num(90)
        /\ rows["matched_jobs"][2].match_percentage = Num(0)

\* The experience levels of AnalysisData, part_001 line 82.
ExperienceLevels == { Str(e) : e \in {"entry-level", "junior", "mid-level", "senior"} }

\* C17, as claimed: the persisted experience_level is "entry-level" whenever
\* the input is missing, of the wrong type or none of the four levels, and
\* it is always one of the four levels.
C17_ExperienceLevelEnum ==
    \A r \in Runs :
        headerApplied(r)
        => /\ recordOf(r).experience_level \in ExperienceLevels
           /\ loc[r].analysisData.experience_level \notin ExperienceLevels
              => recordOf(r).experience_level = Str("entry-level")

\* C18, as claimed: a persisted record has a score within 0..100 and a
\* total_experience of at least 0, a stored skill a confidence within 0..1
\* (0..100 hundredths), a stored job a match_percentage within 0..100.
C18_PersistedRanges ==
    \A r \in Runs :
        /\ headerApplied(r)
           => /\ recordOf(r).score.n \in 0..100
              /\ recordOf(r).total_experience.n >= 0
        /\ \A i \in DOMAIN rows["skills"] : rows["skills"][i].confidence.n \in 0..100
        /\ \A i \in DOMAIN rows["matched_jobs"] :
             rows["matched_jobs"][i].match_percentage.n \in 0..100

\* C19: the data updateResumeWithAnalysis returns is the record as the store
\* holds it (the header row and the rows of the three child tables of that
\* resume id), read after every insert resolved without error; when the
\* re-read fails an error is returned although every write is stored.
C19_RereadIsReturned ==
    \A r \in Runs :
        /\ upd[r].result.data # <<>>
           => /\ upd[r].result.data[1].id = loc[r].newResume
              /\ upd[r].result.data[1].row = recordOf(r)
              /\ recordOf(r).status = "completed"
              /\ \A t \in TableSet :
                   /\ upd[r].ins[t] \in {"ok", "skipped"}
                   /\ placeOf(r, t \o ".insert") < placeOf(r, "resumes.select")
              /\ upd[r].result.data[1].skills = rowsOf(rows, "skills", loc[r].newResume)
              /\ upd[r].result.data[1].feedback = rowsOf(rows, "feedback", loc[r].newResume)
              /\ upd[r].result.data[1].matched_jobs =
                    rowsOf(rows, "matched_jobs", loc[r].newResume)
        /\ upd[r].result.error = "E_select"
           => /\ upd[r].result.data = <<>>
              /\ pc[r] = "failed"
              /\ recordOf(r).status = "completed"
              /\ \A t \in TableSet :
                   /\ upd[r].ins[t] \in {"ok", "skipped"}
                   /\ rowsOf(rows, t, loc[r].newResume) = upd[r].toInsert[t]
        /\ issued(r, "resumes.select")
           => \A t \in TableSet : upd[r].ins[t] \in {"ok", "skipped"}

\* The record returned carries the stored skills and jobs, with the resume id
\* and the defaults the input did not have.
C19_Witness ==
    \E r \in Runs :
        /\ upd[r].result.data # <<>>
        /\ upd[r].result.data[1].skills # <<>>
        /\ upd[r].result.data[1].skills[1].confidence = Num(80)
        /\ upd[r].result.data[1].matched_jobs # <<>>
        /\ pc[r] = "navigated"

\* C20: an insert into skills, feedback or matched_jobs is issued exactly
\* when the list given for it is not empty, and once; a missing or empty list
\* issues none and counts as an insert that succeeded.
C20_InsertOnlyNonEmpty ==
    \A r \in Runs : \A t \in TableSet :
        /\ issued(r, t \o ".insert")
           => nonEmptyInput(r, t) /\ timesIssued(r, t \o ".insert") = 1
        /\ upd[r].ins # NoInserts
           => /\ nonEmptyInput(r, t) <=> issued(r, t \o ".insert")
              /\ nonEmptyInput(r, t) <=> upd[r].ins[t] # "skipped"
        /\ (upd[r].ins[t] = "skipped" /\ updateReturned(r))
           => upd[r].result.error # ErrorOf(t)

\* The feedback is missing: no insert for it, and the update succeeds.
C20_Witness ==
    \E r \in Runs :
        /\ upd[r].result.data # <<>>
        /\ loc[r].analysisData.feedback = JsUndefined
        /\ upd[r].ins["feedback"] = "skipped"
        /\ ~issued(r, "feedback.insert")
        /\ upd[r].ins["skills"] = "ok"

\* The run of r ended in the catch of handleAnalyze.
runFailed(r) == pc[r] = "failed"

\* C21: no record ever has status "failed": every record is "processing" or
\* "completed"; the record of a run that failed, whatever the stage, is
\* "processing" unless its header update was applied, and the record of a run
\* that aborted at the extraction stays "processing".
C21_NeverFailedStatus ==
    /\ \A i \in DOMAIN resumes : resumes[i].status \in {"processing", "completed"}
    /\ \A r \in Runs :
         /\ (runFailed(r) /\ hasRecord(r) /\ ~issued(r, "resumes.update"))
            => recordOf(r).status = "processing"
         /\ (runFailed(r) /\ Len(rets[r]) = 3 /\ failedRet(rets[r][3]))
            => /\ hasRecord(r)
               /\ recordOf(r) = newResumeRow(file[r].name, loc[r].file_url, user[r])
               /\ ~issued(r, "resumes.update")

\* A run aborted at extraction: its record is still "processing".
C21_Witness ==
    \E r \in Runs :
        /\ runFailed(r)
        /\ Len(rets[r]) = 3
        /\ failedRet(rets[r][3])
        /\ recordOf(r).status = "processing"

\* A step creates record i: as "processing", owned by the user of the run
\* that now holds its id.
createdBy(i) ==
    /\ resumes'[i].status = "processing"
    /\ \E r \in TwoRuns :
         /\ loc[r].newResume = 0
         /\ loc'[r].newResume = i
         /\ user[r] # ""
         /\ resumes'[i].user_id = user[r]

\* A step writes record i: the header update of the run that created it,
\* from "processing" to "completed".
writtenByOwner(i) ==
    /\ resumes[i].status = "processing"
    /\ resumes'[i].status = "completed"
    /\ resumes'[i].user_id = resumes[i].user_id
    /\ resumes'[i].filename = resumes[i].filename
    /\ resumes'[i].file_url = resumes[i].file_url
    /\ \E r \in TwoRuns :
         /\ loc[r].newResume = i
         /\ pc[r] = "header"
         /\ pc'[r] = "headerDone"
         /\ resumes'[i] = updatedRow(resumes[i], loc[r].analysisData)

\* C22: every record is created "processing" with the id of the requesting
\* user as owner; afterwards its header is written at most once, by the run
\* that created it, from "processing" to "completed"; a completed record is
\* never written again.
C22_RecordLifecycle ==
    /\ [](\A r \in TwoRuns : timesIssued(r, "resumes.update") <= 1)
    /\ [][/\ Len(resumes') >= Len(resumes)
          /\ \A i \in DOMAIN resumes' :
               IF i \in DOMAIN resumes
               THEN resumes'[i] # resumes[i] => writtenByOwner(i)
               ELSE createdBy(i)]_vars

\* Two records, of two users, both completed.
C22_Witness ==
    /\ Len(resumes) = 2
    /\ resumes[1].status = "completed"
    /\ resumes[2].status = "completed"
    /\ resumes[1].user_id # resumes[2].user_id

\* The header update of run r has been applied to the store.
headerWritten(r) ==
    pc[r] \in {"headerDone", "inserts", "reread", "navigated"} \/ upd[r].header = "ok"

\* C23: of two interleaved runs each creates its own record; a record holds
\* what its own run wrote (the created row, then that run's header update),
\* and the child rows that carry its id are those its own run inserted.
C23_RunsIndependent ==
    /\ Len(resumes) = Cardinality({ r \in TwoRuns : hasRecord(r) })
    /\ \A r \in TwoRuns : \A q \in TwoRuns \ {r} :
         hasRecord(r) /\ hasRecord(q) => loc[r].newResume # loc[q].newResume
    /\ \A r \in TwoRuns :
         hasRecord(r)
         => /\ recordOf(r) =
                 IF headerWritten(r)
                 THEN updatedRow(newResumeRow(file[r].name, loc[r].file_url, user[r]),
                                 loc[r].analysisData)
                 ELSE newResumeRow(file[r].name, loc[r].file_url, user[r])
            /\ \A t \in TableSet :
                 /\ rowsOf(rows, t, loc[r].newResume) =
                       IF upd[r].ins[t] = "ok" THEN upd[r].toInsert[t] ELSE <<>>
                 /\ \A i \in DOMAIN upd[r].toInsert[t] :
                       upd[r].toInsert[t][i].resume_id = loc[r].newResume
    /\ \A t \in TableSet : \A i \in DOMAIN rows[t] :
         \E r \in TwoRuns : hasRecord(r) /\ rows[t][i].resume_id = loc[r].newResume

\* Two runs of one user with different analyses: one has stored its skills
\* while the record of the other is still "processing".
C23_Witness ==
    /\ user["r1"] = user["r2"]
    /\ hasRecord("r1") /\ hasRecord("r2")
    /\ loc["r1"].analysisData # loc["r2"].analysisData
    /\ rowsOf(rows, "skills", loc["r1"].newResume) # <<>>
    /\ recordOf("r1").status = "completed"
    /\ pc["r2"] = "header"
    /\ recordOf("r2").status = "processing"

\* The run of r has ended, and no request of it resolved with an error:
\* upload, record creation, extraction and job search returned without error,
\* the header update succeeded, and no insert and no re-read failed.
endedWithoutFailedRequest(r) ==
    /\ pc[r] \in {"failed", "navigated"}
    /\ Len(rets[r]) = 5
    /\ \A i \in 1..4 : ~failedRet(rets[r][i])
    /\ upd[r].header = "ok"
    /\ \A t \in TableSet : upd[r].ins[t] # "err"
    /\ upd[r].result.error # "E_select"

\* C24, as claimed: when upload, record creation, extraction, job search and
\* every persistence write succeed, the run ends with a record that is
\* "completed", has the extractor's numeric score, and as many skills,
\* feedback items and jobs as the extractor and the job search delivered.
C24_SuccessCompletes ==
    \A r \in Runs :
        endedWithoutFailedRequest(r)
        => /\ pc[r] = "navigated"
           /\ upd[r].result.data # <<>>
           /\ upd[r].result.data[1].row.status = "completed"
           /\ typeofNumber(loc[r].analysisData.score)
              => upd[r].result.data[1].row.score = loc[r].analysisData.score
           /\ Len(upd[r].result.data[1].skills) = Len(inputOf(r, "skills").items)
           /\ Len(upd[r].result.data[1].feedback) = Len(inputOf(r, "feedback").items)
           /\ Len(upd[r].result.data[1].matched_jobs) =
                 Len(inputOf(r, "matched_jobs").items)

\* The values of setProgress in the try block, lines 45, 49, 54, 59, 63, 69.
Milestones == <<10, 25, 40, 70, 90, 100>>

\* C25, as claimed: the progress reported during a run never decreases
\* between the start and the end of the run.
C25_ProgressNeverDecreases ==
    \A r \in Runs : \A i, j \in DOMAIN progressLog[r] :
        i < j => progressLog[r][i] <= progressLog[r][j]

\* The progress values of run r before the reset of the catch.
reported(r) ==
    IF runFailed(r) THEN SubSeq(progressLog[r], 1, Len(progressLog[r]) - 1)
    ELSE progressLog[r]

\* C25, amended: while a run proceeds, the progress goes through the
\* milestones 10, 25, 40, 70, 90, 100 in this order, strictly increasing; the
\* only decrease is the reset to 0 in the catch of a run that fails, which is
\* the last value of that run.
C25_ProgressIncreasesUntilReset ==
    \A r \in Runs :
        /\ Len(reported(r)) <= Len(Milestones)
        /\ reported(r) = SubSeq(Milestones, 1, Len(reported(r)))
        /\ runFailed(r) => progressLog[r][Len(progressLog[r])] = 0 /\ ui[r].progress = 0
        /\ (~runFailed(r) /\ progressLog[r] # <<>>)
           => ui[r].progress = progressLog[r][Len(progressLog[r])]

\* A run that failed in the last stage: 90 was reported, then 0.
C25_Witness ==
    \E r \in Runs : progressLog[r] = <<10, 25, 40, 70, 90, 0>>

\* analyzeResume has returned in run r.
analyzeReturned(r) == Len(rets[r]) >= 3

\* C26, as claimed: analyzeResume issues exactly one model request per call,
\* never a second one; when the request fails or the text does not parse it
\* returns {data: null, error} and does not throw.
C26_ExactlyOneRequest ==
    \A r \in Runs :
        analyzeReturned(r)
        => /\ timesIssued(r, "generateContent.analyze") = 1
           /\ loc[r].extraction \in {"rejected", "unparsable"}
              => rets[r][3].error /\ ~rets[r][3].data

\* C26, amended: analyzeResume issues at most one model request per call:
\* none when encoding the file fails, else exactly one, never a repair or a
\* retry; when encoding fails, the request fails or the text does not parse,
\* it returns {data: null, error} and does not throw.
C26_AtMostOneRequest ==
    \A r \in Runs :
        /\ timesIssued(r, "generateContent.analyze") <= 1
        /\ analyzeReturned(r)
           => /\ rets[r][3].fn = "analyzeResume"
              /\ timesIssued(r, "generateContent.analyze") =
                    IF loc[r].extraction = "encodeRejected" THEN 0 ELSE 1
              /\ loc[r].extraction \in {"encodeRejected", "rejected", "unparsable"}
                 => /\ rets[r][3].error
                    /\ ~rets[r][3].data
                    /\ runFailed(r)
                    /\ ui[r].error = "AI analysis failed."
                    /\ Len(calls[r]) = 3
              /\ loc[r].extraction = "data" => ~failedRet(rets[r][3])

\* The text of the model did not parse.
C26_Witness ==
    \E r \in Runs :
        /\ analyzeReturned(r)
        /\ loc[r].extraction = "unparsable"
        /\ rets[r][3].error
        /\ timesIssued(r, "generateContent.analyze") = 1

StageErrors ==
    {"Failed to upload file.", "Failed to create resume record.", "AI analysis failed.",
     "Failed to save analysis results."}

\* C28: when a run fails, at whatever stage, the page shows the error of
\* that stage, isLoading is false, the progress is 0 and the status is the
\* ready text; the file is still selected, so the button that starts a run
\* (disabled while there is no file or isLoading) is enabled again.
C28_FailureResetsPage ==
    \A r \in Runs :
        runFailed(r)
        => /\ ui[r].error \in StageErrors
           /\ ui[r].isLoading = FALSE
           /\ ui[r].progress = 0
           /\ ui[r].status = ReadyText
           /\ file[r] # NoFile
           /\ user[r] # ""
           /\ ui[r].error =
                 CASE Len(rets[r]) = 1 -> "Failed to upload file."
                   [] Len(rets[r]) = 2 -> "Failed to create resume record."
                   [] Len(rets[r]) = 3 -> "AI analysis failed."
                   [] OTHER -> "Failed to save analysis results."

\* A run failed in its last stage, after the progress had reached 90.
C28_Witness ==
    \E r \in Runs :
        /\ runFailed(r)
        /\ Len(rets[r]) = 5
        /\ ui[r] = [isLoading |-> FALSE, progress |-> 0, status |-> ReadyText,
                    error |-> "Failed to save analysis results."]

(***************************************************************************)
(* C29: every job the direct-search variant of findMatchingJobs returns    *)
(* has an integer match_percentage from 75 to 95, and the variant returns  *)
(* at most 10 jobs: the first 10 of the response when it holds more.       *)
(***************************************************************************)
directReturned(r) == jobSource[r] = "direct" /\ jobsReturned(r)

C29_DirectMatchRange ==
    \A r \in Runs :
        directReturned(r) =>
            /\ loc[r].matched_jobs.kind = "array"
            /\ Len(loc[r].matched_jobs.items) <= 10
            /\ \A i \in 1..Len(loc[r].matched_jobs.items) :
                   /\ loc[r].matched_jobs.items[i].match_percentage.t = "number"
                   /\ loc[r].matched_jobs.items[i].match_percentage.n \in 75..95
            /\ (loc[r].first.kind = "body" /\ loc[r].first.data.kind = "array"
                   /\ Len(loc[r].first.data.items) > 10)
                  => /\ Len(loc[r].matched_jobs.items) = 10
                     /\ \A i \in 1..10 :
                            loc[r].matched_jobs.items[i].title
                                = loc[r].first.data.items[i].title

C29_Witness ==
    \E r \in Runs :
        /\ directReturned(r)
        /\ loc[r].first.kind = "body"
        /\ loc[r].first.data.kind = "array"
        /\ Len(loc[r].first.data.items) > 10
        /\ Len(loc[r].matched_jobs.items) = 10
        /\ loc[r].matched_jobs.items[1].match_percentage = Num(75)
        /\ loc[r].matched_jobs.items[2].match_percentage = Num(95)

(***************************************************************************)
(* C30: after the auth listener has handled a sign-out event (a session    *)
(* without user) and no later sign-in event has occurred, profile is null  *)
(* and resumes is empty, also when fetches of an earlier sign-in or of the *)
(* initial session are still in flight when the sign-out arrives.          *)
(***************************************************************************)
signedOut == handled # <<>> /\ handled[Len(handled)].user = ""

C30_SignOutClears ==
    signedOut => app.profile = NullProfile /\ app.resumes = <<>>

(***************************************************************************)
(* C31: handleAnalyze reports progress 100 and navigates to the results    *)
(* page only in a run where updateResumeWithAnalysis returned a record     *)
(* without error; in every state with progress 100 the record of that run  *)
(* has status "completed".                                                 *)
(***************************************************************************)
\* updateResumeWithAnalysis returned {data: a record, error: null} in run r.
updateSucceeded(r) ==
    \E i \in DOMAIN rets[r] : rets[r][i] = Ret("updateResumeWithAnalysis", FALSE, TRUE)

\* Run r has called setProgress(100), or navigate.
completedRun(r) ==
    \/ ui[r].progress = 100
    \/ pc[r] = "navigated"
    \/ \E i \in DOMAIN progressLog[r] : progressLog[r][i] = 100

C31_CompleteOnlyAfterUpdate ==
    \A r \in Runs :
        /\ completedRun(r)
           => /\ updateSucceeded(r)
              /\ \A i \in DOMAIN rets[r] : ~failedRet(rets[r][i])
              /\ upd[r].result.error = "none"
              /\ Len(upd[r].result.data) = 1
              /\ upd[r].result.data[1].id = loc[r].newResume
              /\ upd[r].result.data[1].row.status = "completed"
        /\ ui[r].progress = 100
           => /\ hasRecord(r)
              /\ recordOf(r).status = "completed"
              /\ pc[r] = "navigated"

\* A run that navigated, with 100 as its last progress value.
C31_Witness ==
    \E r \in Runs :
        /\ pc[r] = "navigated"
        /\ ui[r].progress = 100
        /\ progressLog[r] = Milestones
        /\ updateSucceeded(r)
        /\ recordOf(r).status = "completed"

(***************************************************************************)
(* C32: if every request eventually resolves, every run of handleAnalyze   *)
(* eventually ends, navigated to the results or with an error shown, after *)
(* issuing at most one upload, one record creation, one extraction         *)
(* request, two job-search requests, one header update, three child        *)
(* inserts and one re-read.                                                *)
(***************************************************************************)
\* Run r has started and not ended.
running(r) == pc[r] \notin {"idle", "failed", "navigated"}

\* Run r has ended: with navigate after progress 100, or in the catch.
ended(r) ==
    \/ pc[r] = "navigated" /\ ui[r].progress = 100
    \/ pc[r] = "failed" /\ ui[r].error # "" /\ ~ui[r].isLoading

jobSearchRequests(r) ==
    timesIssued(r, "generateContent.jobs") + timesIssued(r, "generateContent.fix")
        + timesIssued(r, "fetch.jsearch")

requestBounds(r) ==
    /\ timesIssued(r, "storage.upload") <= 1
    /\ timesIssued(r, "resumes.insert") <= 1
    /\ timesIssued(r, "generateContent.analyze") <= 1
    /\ jobSearchRequests(r) <= 2
    /\ timesIssued(r, "resumes.update") <= 1
    /\ \A t \in TableSet : timesIssued(r, t \o ".insert") <= 1
    /\ timesIssued(r, "resumes.select") <= 1
    /\ Len(reqs[r]) <= 10

C32_RunsEnd ==
    /\ [](\A r \in Runs : requestBounds(r))
    /\ \A r \in Runs : running(r) ~> ended(r)
    /\ \A r \in Runs : [](ended(r) => [](ended(r) /\ ~running(r)))

\* A run that ended after every request the claim allows: ten in all.
C32_Witness ==
    \E r \in Runs :
        /\ ended(r)
        /\ pc[r] = "navigated"
        /\ Len(reqs[r]) = 10
        /\ jobSearchRequests(r) = 2
        /\ \A t \in TableSet : timesIssued(r, t \o ".insert") = 1

====
